---- MODULE Spec2Model ----
(***************************************************************************)
(* Orchestration core of the speech-to-text desktop application:           *)
(* CliManager (src-tauri/src/cli.rs) drives one external worker process    *)
(* per audio file, and the batch coordinators (CliManager::process_batch,  *)
(* lib.rs process_batch_with_events) sequence several files through it.    *)
(*                                                                         *)
(* Every await point of the Rust code is a step boundary; the worker, the  *)
(* owner of the cancellation token and the tokio timer are the             *)
(* environment.  tokio::select! polls its branches in an unspecified       *)
(* order, so the two branches are polled by two independent actions.       *)
(***************************************************************************)
EXTENDS Integers, Sequences, FiniteSets, TLC

\* Largest number of files in one batch.
MaxFiles == 2

JobId == "job"

VARIABLES
    mode,            \* entry point: "single" | "batch" | "events"
    use_sidecar,     \* CliManager.use_sidecar
    has_callback,    \* progress_callback.is_some()
    has_token,       \* cancellation_token.is_some()
    file_exists,     \* file_exists[i]: the i-th input path exists on disk
    token,           \* CancellationToken state: TRUE once cancelled
    active_jobs,     \* BatchProcessingManager.active_jobs (its key set)
    bpc,             \* position of the caller / batch coordinator
    index,           \* 1-based index of the file being processed
    results,         \* Vec<TranscriptionResult> of the batch, as file indices
    batch_ret,       \* return value of process_batch: "none" | "Ok" | "Err"
    pc,              \* position inside process_file_with_cancellation
    a_state,         \* progress of the async block inside timeout(..)
    probe,           \* probe[i]: state of the `--version` process of run i
    child,           \* child[i]: the worker spawned for file i
    rerun,           \* rerun[i]: the second execution made after a failure
    launches,        \* launches[i]: executions with the transcription args
    outcomes,        \* value returned by each finished single-file run
    events,          \* ProcessingProgress values delivered to the sink
    app_events,      \* events emitted through app_handle.emit
    batch_progress,  \* the payloads of the "batch-progress" events
    cancel_at,       \* where the current run stood when the token fired
    \* the job registry (lib.rs) with several batches
    job_data,            \* active_jobs values: progress, stage, is_cancelled
    job_handles,         \* BatchProcessingManager.job_handles (its key set)
    cancellation_tokens, \* BatchProcessingManager.cancellation_tokens (keys)
    tokens,              \* tokens[id]: the job's CancellationToken fired
    start_pc,            \* position of start_batch_processing for each id
    task,                \* position of each spawned background task
    file_idx,            \* 0-based index of the file a batch task is at
    lines_left,          \* output lines the current worker may still emit
    pending_updates,     \* update tasks spawned by the progress callback
    job_events,          \* job_events[id]: events emitted by that batch
    last_op,             \* the last registry call and what it returned
    \* parse_and_emit_progress on one line of worker output
    line,                \* the line, as a sequence of lexical tokens
    emitted,             \* the events the call delivered to the callback
    parse_pc,            \* "ready" before the call, "done" after it
    \* parse_cli_completion on one input and one state of the directories
    stem,                \* base_name: the input's file stem
    audio_ok,            \* create_audio_file(file_path) succeeds
    fs,                  \* candidate files, in directory listing order
    log_dir,             \* where desktop_dir() or its fallback points
    resolved,            \* the results of the calls made so far
    \* monitor_progress_with_cancellation
    mon_pc,              \* "idle" | "ready" | "sleeping" | "returned"
    mon_has_token,       \* cancellation_token.is_some()
    mon_token,           \* that token has been triggered
    mon_stage,           \* 1-based index into the stage table
    mon_sleeps,          \* sleeps finished in the current stage
    mon_events,          \* values delivered to the callback
    mon_at_cancel,       \* events delivered when the token was triggered,
                         \* and sleeps that have finished since
    \* the two reader tasks of one run and its exit-await
    rd_pipe,             \* per stream, the lines the worker has written
    rd_pos,              \* per stream, the lines its reader has taken
    rd_pc,               \* per stream, "idle" | "reading" | "done"
    rd_child,            \* "none" | "running" | "zero" | "nonzero"
    rd_await,            \* "idle" | "waiting" | "done"
    delivered            \* calls of the callback, in the order made

vars == << mode, use_sidecar, has_callback, has_token, file_exists, token,
           active_jobs, bpc, index, results, batch_ret, pc, a_state, probe,
           child, rerun, launches, outcomes, events, app_events,
           batch_progress, cancel_at, job_data, job_handles, cancellation_tokens, tokens,
           start_pc, task, file_idx, lines_left, pending_updates,
           job_events, last_op, line, emitted, parse_pc, stem, audio_ok,
           fs, log_dir, resolved, mon_pc, mon_has_token, mon_token,
           mon_stage, mon_sleeps, mon_events, mon_at_cancel, rd_pipe,
           rd_pos, rd_pc, rd_child, rd_await, delivered >>

\* The registry and the batches it tracks, apart from active_jobs.
RegRest == << job_data, job_handles, cancellation_tokens, tokens, start_pc,
             task, file_idx, lines_left, pending_updates, job_events,
             last_op >>

\* Everything the single-file orchestrator does not touch.
ParserVars == << line, emitted, parse_pc >>

ResolverVars == << stem, audio_ok, fs, log_dir, resolved >>

MonVars == << mon_pc, mon_has_token, mon_token, mon_stage, mon_sleeps,
             mon_events, mon_at_cancel >>

\* Functions of CliManager that are modelled on their own.
RdVars == << rd_pipe, rd_pos, rd_pc, rd_child, rd_await, delivered >>

AuxVars == << MonVars, RdVars >>

\* What neither the orchestrator nor the registry touches.
PureVars == << ParserVars, ResolverVars, AuxVars >>

Others == << RegRest, PureVars, batch_progress >>

JobIds == {"A", "B"}

NoOp == [op |-> "none"]

\* No batch has been started through start_batch_processing.
RegIdle ==
    /\ job_data = << >>
    /\ job_handles = {}
    /\ cancellation_tokens = {}
    /\ tokens = [id \in JobIds |-> FALSE]
    /\ start_pc = [id \in JobIds |-> "none"]
    /\ task = [id \in JobIds |-> "none"]
    /\ file_idx = [id \in JobIds |-> 0]
    /\ lines_left = [id \in JobIds |-> 0]
    /\ pending_updates = {}
    /\ job_events = [id \in JobIds |-> << >>]
    /\ last_op = NoOp

N == Len(file_exists)
Files == 1..N

NoChild == [st |-> "none", code |-> 0, kill_sent |-> FALSE, probed |-> FALSE]

ChildRunning(i) == child[i].st = "running"
ChildExited(i) == child[i].st = "exited"

\* parse_and_emit_progress is not being called.
ParserIdle ==
    /\ line = << >>
    /\ emitted = << >>
    /\ parse_pc = "idle"

NotCancelled == [len |-> 0, wakes |-> 0, fired |-> FALSE]

\* monitor_progress is not being called.
MonIdle ==
    /\ mon_pc = "idle"
    /\ mon_has_token = FALSE
    /\ mon_token = FALSE
    /\ mon_stage = 1
    /\ mon_sleeps = 0
    /\ mon_events = << >>
    /\ mon_at_cancel = NotCancelled

Streams == {"stdout", "stderr"}

\* No worker has been spawned with a callback.
RdIdle ==
    /\ rd_pipe = [s \in Streams |-> << >>]
    /\ rd_pos = [s \in Streams |-> 0]
    /\ rd_pc = [s \in Streams |-> "idle"]
    /\ rd_child = "none"
    /\ rd_await = "idle"
    /\ delivered = << >>

AuxIdle == MonIdle /\ RdIdle

\* parse_cli_completion is not being called.
ResolverIdle ==
    /\ stem = << >>
    /\ audio_ok = TRUE
    /\ fs = << >>
    /\ log_dir = "desktop"
    /\ resolved = << >>

----------------------------------------------------------------------------
(* Initial states: one call of an entry point, before its first statement *)

BoolSeqs(n) == [1..n -> BOOLEAN]

Init ==
    /\ mode \in {"single", "batch", "events"}
    /\ use_sidecar \in BOOLEAN
    /\ has_callback \in BOOLEAN
    /\ has_token \in BOOLEAN
    /\ mode = "batch" => ~has_token
    /\ mode = "events" => has_token /\ has_callback
    /\ \E n \in 1..MaxFiles :
          /\ mode = "single" => n = 1
          /\ file_exists \in BoolSeqs(n)
    /\ mode = "events" => \A i \in 1..Len(file_exists) : file_exists[i]
    /\ token = FALSE
    /\ active_jobs = IF mode = "events" THEN {JobId} ELSE {}
    /\ bpc = "start"
    /\ index = 1
    /\ results = << >>
    /\ batch_ret = "none"
    /\ pc = "idle"
    /\ a_state = "init"
    /\ probe = [i \in 1..Len(file_exists) |-> "none"]
    /\ child = [i \in 1..Len(file_exists) |-> NoChild]
    /\ rerun = [i \in 1..Len(file_exists) |-> "none"]
    /\ launches = [i \in 1..Len(file_exists) |-> 0]
    /\ outcomes = << >>
    /\ events = << >>
    /\ app_events = << >>
    /\ batch_progress = << >>
    /\ cancel_at = [file |-> 0, st |-> "none"]
    /\ RegIdle
    /\ AuxIdle
    /\ ParserIdle
    /\ ResolverIdle

----------------------------------------------------------------------------
(* The progress sink *)

Progress(src, stage, num, den) ==
    [src |-> src, stage |-> stage, num |-> num, den |-> den, file |-> index]

\* Calling the ProgressCallback, when one was supplied.  The callback built
\* by process_batch_with_events forwards every value as "file-progress".
Sink(e) ==
    /\ events' = IF has_callback THEN Append(events, e) ELSE events
    /\ app_events' = IF has_callback /\ mode = "events"
                     THEN Append(app_events, "file-progress")
                     ELSE app_events

NoSink == UNCHANGED << events, app_events >>

\* The value a single-file run hands back to its caller.  tok records the
\* token's state at that moment, exited whether the worker had terminated.
Return(kind, why) ==
    /\ pc' = "returned"
    /\ outcomes' = Append(outcomes, [file |-> index, kind |-> kind,
                                     why |-> why, tok |-> token,
                                     exited |-> ChildExited(index)])

Config == << mode, use_sidecar, has_callback, has_token, file_exists,
            cancel_at >>
Batch == << active_jobs, bpc, index, results, batch_ret >>

----------------------------------------------------------------------------
(* CliManager::process_file_with_cancellation *)

\* ProcessFileEntry that delivers the initial event before it looks at the
\* token.
ProcessFileEntry_EventFirst ==
    /\ pc = "entry"
    /\ IF ~file_exists[index]
       THEN Return("FileNotFound", "missing") /\ NoSink
       ELSE /\ Sink(Progress("orchestrator", "Initializing", 0, 1))
            /\ IF has_token /\ token
               THEN Return("ProcessingError", "cancel_pre")
               ELSE /\ pc' = IF use_sidecar THEN "locate" ELSE "spawn"
                    /\ UNCHANGED outcomes
    /\ UNCHANGED << Others, Config, Batch, token, a_state, probe, child, rerun,
                    launches >>

\* Existence check, pre-spawn cancellation check, initial progress event.
ProcessFileEntry ==
    /\ pc = "entry"
    /\ IF ~file_exists[index]
       THEN Return("FileNotFound", "missing") /\ NoSink
       ELSE IF has_token /\ token
       THEN Return("ProcessingError", "cancel_pre") /\ NoSink
       ELSE /\ Sink(Progress("orchestrator", "Initializing", 0, 1))
            /\ pc' = IF use_sidecar THEN "locate" ELSE "spawn"
            /\ UNCHANGED outcomes
    /\ UNCHANGED << Others, Config, Batch, token, a_state, probe, child, rerun,
                    launches >>

\* process_with_sidecar: find_sidecar_path, then start the `--version` run.
SidecarProbeStart ==
    /\ pc = "locate"
    /\ \/ Return("CliError", "sidecar_missing") /\ UNCHANGED probe
       \/ /\ probe' = [probe EXCEPT ![index] = "running"]
          /\ pc' = "probe"
          /\ UNCHANGED outcomes
    /\ UNCHANGED << Others, Config, Batch, token, a_state, child, rerun, launches,
                    events, app_events >>

\* The `--version` run finishes: success lets the run go on, a non-zero
\* status or an I/O error ends it with CliError.
SidecarProbeDone ==
    /\ pc = "probe"
    /\ \/ /\ probe' = [probe EXCEPT ![index] = "ok"]
          /\ pc' = "spawn"
          /\ UNCHANGED outcomes
       \/ /\ probe' = [probe EXCEPT ![index] = "fail"]
          /\ Return("CliError", "probe")
    /\ UNCHANGED << Others, Config, Batch, token, a_state, child, rerun, launches,
                    events, app_events >>

\* cmd.spawn() with the transcription arguments, in either mode.  The two
\* reader tasks are attached and the orchestrator reaches its wait.
SpawnWorker ==
    /\ pc = "spawn"
    /\ \/ /\ Return("CliError", "spawn")
          /\ UNCHANGED << child, launches, a_state >>
       \/ /\ child' = [child EXCEPT ![index] =
                          [st |-> "running", code |-> 0, kill_sent |-> FALSE,
                           probed |-> (probe[index] = "ok")]]
          /\ launches' = [launches EXCEPT ![index] = @ + 1]
          /\ a_state' = "init"
          /\ pc' = IF has_callback
                   THEN IF has_token THEN "select" ELSE "wait_timeout"
                   ELSE "wait_plain"
          /\ UNCHANGED outcomes
    /\ UNCHANGED << Others, Config, Batch, token, probe, rerun, events, app_events >>

\* What follows once the exit status of child[index] is known.
HandleStatus ==
    IF child[index].code = 0
    THEN /\ Sink(Progress("orchestrator", "Saving", 100, 1))
         /\ pc' = "resolve"
         /\ UNCHANGED << outcomes, launches, rerun >>
    ELSE IF has_callback /\ use_sidecar
    THEN \* "Try to capture stderr": the worker is executed again
         /\ launches' = [launches EXCEPT ![index] = @ + 1]
         /\ rerun' = [rerun EXCEPT ![index] = "running"]
         /\ pc' = "rerun"
         /\ NoSink
         /\ UNCHANGED outcomes
    ELSE \* development mode only re-runs `--version`, synchronously
         /\ Return("CliError", "exit")
         /\ NoSink
         /\ UNCHANGED << launches, rerun >>

\* select! branch 1, first poll of the async block: the cancellation check
\* made before waiting; a cancelled token makes it kill the child.
AwaitCheckCancel ==
    /\ pc = "select"
    /\ a_state = "init"
    /\ IF token
       THEN /\ child' = [child EXCEPT ![index].kill_sent = TRUE]
            /\ a_state' = "killing"
       ELSE /\ a_state' = "waiting"
            /\ UNCHANGED child
    /\ UNCHANGED << Others, Config, Batch, token, pc, probe, rerun, launches,
                    outcomes, events, app_events >>

\* select! branch 1: child.kill().await resolves, the block yields
\* Err(Interrupted, "Cancelled"), which the caller maps to CliError.
AwaitKillDone ==
    /\ pc = "select"
    /\ a_state = "killing"
    /\ ChildExited(index)
    /\ Return("CliError", "cancel_prewait")
    /\ UNCHANGED << Others, Config, Batch, token, a_state, probe, child, rerun,
                    launches, events, app_events >>

\* select! branch 1: child.wait().await resolves.
AwaitExit ==
    /\ pc = "select"
    /\ a_state = "waiting"
    /\ ChildExited(index)
    /\ HandleStatus
    /\ UNCHANGED << Others, Config, Batch, token, a_state, probe, child >>

\* select! branch 1: timeout_duration elapses before the block resolves.
AwaitTimeout ==
    /\ pc = "select"
    /\ a_state \in {"killing", "waiting"}
    /\ ChildRunning(index)
    /\ Return("CliError", "timeout")
    /\ UNCHANGED << Others, Config, Batch, token, a_state, probe, child, rerun,
                    launches, events, app_events >>

\* select! branch 2: token.cancelled() resolves.
AwaitCancelled ==
    /\ pc = "select"
    /\ token
    /\ Return("ProcessingError", "cancel_select")
    /\ UNCHANGED << Others, Config, Batch, token, a_state, probe, child, rerun,
                    launches, events, app_events >>

\* Callback but no token: timeout(timeout_duration, child.wait()).
WaitWithTimeout ==
    /\ pc = "wait_timeout"
    /\ \/ /\ ChildExited(index)
          /\ HandleStatus
       \/ /\ ChildRunning(index)
          /\ Return("CliError", "timeout")
          /\ NoSink
          /\ UNCHANGED << launches, rerun >>
    /\ UNCHANGED << Others, Config, Batch, token, a_state, probe, child >>

\* No callback: child.wait().await, neither timeout nor token.
WaitPlain ==
    /\ pc = "wait_plain"
    /\ ChildExited(index)
    /\ HandleStatus
    /\ UNCHANGED << Others, Config, Batch, token, a_state, probe, child >>

\* The second execution finishes; the run reports the first exit code.
RerunDone ==
    /\ pc = "rerun"
    /\ rerun' = [rerun EXCEPT ![index] = "exited"]
    /\ Return("CliError", "exit")
    /\ UNCHANGED << Others, Config, Batch, token, a_state, probe, child, launches,
                    events, app_events >>

\* parse_cli_completion after a zero exit: the artifact is found and read,
\* or found but not readable (the result then carries the fixed text
\* Unreadable), or it is not found, or the input no longer validates.
ResolveOutput ==
    /\ pc = "resolve"
    /\ \/ Return("Ok", "artifact")
       \/ Return("Ok", "placeholder")
       \/ Return("CliError", "artifact_not_found")
       \/ Return("UnsupportedFormat", "create_audio_file")
    /\ UNCHANGED << Others, Config, Batch, token, a_state, probe, child, rerun,
                    launches, events, app_events >>

----------------------------------------------------------------------------
(* Environment: the worker process and the owner of the token *)

\* A running worker terminates, by itself or because of a signal.
WorkerExit(i) ==
    /\ ChildRunning(i)
    /\ \E c \in {0, 1} : child' = [child EXCEPT ![i].st = "exited",
                                                ![i].code = c]
    /\ UNCHANGED << Others, Config, Batch, token, pc, a_state, probe, rerun,
                    launches, outcomes, events, app_events >>

\* token.cancel(): by the caller that owns the token, or by
\* BatchProcessingManager::cancel_job for a registered batch.
CancelToken ==
    /\ has_token
    /\ ~token
    /\ bpc # "done"
    /\ token' = TRUE
    /\ cancel_at' = IF index \in Files
                    THEN [file |-> index, st |-> child[index].st]
                    ELSE [file |-> 0, st |-> "none"]
    /\ UNCHANGED << Others, mode, use_sidecar, has_callback, has_token,
                    file_exists, Batch, pc, a_state, probe, child, rerun,
                    launches, outcomes, events, app_events >>

Orch == << pc, a_state, probe, child, rerun, launches >>
LastOutcome == outcomes[Len(outcomes)]

----------------------------------------------------------------------------
(* A direct call of process_file_with_cancellation (mode "single") *)

SingleCall ==
    /\ mode = "single"
    /\ bpc = "start"
    /\ bpc' = "running"
    /\ pc' = "entry"
    /\ UNCHANGED << Others, Config, token, active_jobs, index, results, batch_ret,
                    a_state, probe, child, rerun, launches, outcomes,
                    events, app_events >>

SingleReturn ==
    /\ mode = "single"
    /\ bpc = "running"
    /\ pc = "returned"
    /\ bpc' = "done"
    /\ UNCHANGED << Others, Config, token, active_jobs, index, results, batch_ret,
                    Orch, outcomes, events, app_events >>

----------------------------------------------------------------------------
(* CliManager::process_batch (mode "batch") *)

BatchNextFile_OneBased ==
    /\ mode = "batch"
    /\ bpc \in {"start", "loop"}
    /\ index <= N
    /\ Sink(Progress("batch", "Initializing", 100 * index, N))
    /\ bpc' = "running"
    /\ pc' = "entry"
    /\ UNCHANGED << Others, Config, token, active_jobs, index, results, batch_ret,
                    a_state, probe, child, rerun, launches, outcomes >>

\* Loop head: the batch-level progress event, then process_file, which
\* passes no cancellation token.
BatchNextFile ==
    /\ mode = "batch"
    /\ bpc \in {"start", "loop"}
    /\ index <= N
    /\ Sink(Progress("batch", "Initializing", 100 * (index - 1), N))
    /\ bpc' = "running"
    /\ pc' = "entry"
    /\ UNCHANGED << Others, Config, token, active_jobs, index, results, batch_ret,
                    a_state, probe, child, rerun, launches, outcomes >>

\* BatchCollect with the error propagated to the caller of the batch
\* instead of logged.
BatchCollect_AbortOnError ==
    /\ mode = "batch"
    /\ bpc = "running"
    /\ pc = "returned"
    /\ IF LastOutcome.kind = "Ok"
       THEN /\ results' = Append(results, index)
            /\ index' = index + 1
            /\ bpc' = "loop"
            /\ pc' = "idle"
            /\ UNCHANGED batch_ret
       ELSE /\ batch_ret' = "Err"
            /\ bpc' = "done"
            /\ UNCHANGED << results, index, pc >>
    /\ UNCHANGED << Others, Config, token, active_jobs, a_state, probe, child, rerun,
                    launches, outcomes, events, app_events >>

\* The match on the run's value: Ok is pushed, Err is only logged.
BatchCollect ==
    /\ mode = "batch"
    /\ bpc = "running"
    /\ pc = "returned"
    /\ results' = IF LastOutcome.kind = "Ok"
                  THEN Append(results, index)
                  ELSE results
    /\ index' = index + 1
    /\ bpc' = "loop"
    /\ pc' = "idle"
    /\ UNCHANGED << Others, Config, token, active_jobs, batch_ret, a_state, probe,
                    child, rerun, launches, outcomes, events, app_events >>

\* The loop is exhausted: Ok(results).
BatchReturn ==
    /\ mode = "batch"
    /\ bpc \in {"start", "loop"}
    /\ index > N
    /\ batch_ret' = "Ok"
    /\ bpc' = "done"
    /\ UNCHANGED << Others, Config, token, active_jobs, index, results, Orch,
                    outcomes, events, app_events >>

----------------------------------------------------------------------------
(* lib.rs process_batch_with_events (mode "events") *)

\* Loop head: cancellation check, update_job_progress, "batch-progress",
\* then process_file_with_cancellation with the callback and the token.
EventsNextFile ==
    /\ mode = "events"
    /\ bpc \in {"start", "loop"}
    /\ index <= N
    /\ IF token
       THEN /\ app_events' = Append(app_events, "batch-cancelled")
            /\ bpc' = "done"
            /\ UNCHANGED << pc, batch_progress >>
       ELSE /\ app_events' = Append(app_events, "batch-progress")
            /\ batch_progress' =
                  Append(batch_progress,
                         Progress("batch", "Initializing", 100 * (index - 1), N))
            /\ bpc' = "running"
            /\ pc' = "entry"
    /\ UNCHANGED << RegRest, PureVars, Config, token, active_jobs, index, results, batch_ret,
                    a_state, probe, child, rerun, launches, outcomes,
                    events >>

\* The match on the run's value, then the registry look-up.
EventsCollect ==
    /\ mode = "events"
    /\ bpc = "running"
    /\ pc = "returned"
    /\ results' = IF LastOutcome.kind = "Ok"
                  THEN Append(results, index)
                  ELSE results
    /\ LET ev == IF LastOutcome.kind = "Ok" THEN "file-completed"
                                             ELSE "file-error"
       IN  IF JobId \notin active_jobs
           THEN /\ app_events' = app_events \o << ev, "batch-cancelled" >>
                /\ bpc' = "done"
                /\ UNCHANGED << index, pc >>
           ELSE /\ app_events' = Append(app_events, ev)
                /\ index' = index + 1
                /\ bpc' = "loop"
                /\ pc' = "idle"
    /\ UNCHANGED << Others, Config, token, active_jobs, batch_ret, a_state, probe,
                    child, rerun, launches, outcomes, events >>

\* After the loop: "batch-completed", then remove_job.
EventsComplete ==
    /\ mode = "events"
    /\ bpc \in {"start", "loop"}
    /\ index > N
    /\ app_events' = Append(app_events, "batch-completed")
    /\ active_jobs' = active_jobs \ {JobId}
    /\ bpc' = "done"
    /\ UNCHANGED << Others, Config, token, index, results, batch_ret, Orch,
                    outcomes, events >>

----------------------------------------------------------------------------

Next ==
    \/ SingleCall
    \/ SingleReturn
    \/ BatchNextFile
    \/ BatchCollect
    \/ BatchReturn
    \/ EventsNextFile
    \/ EventsCollect
    \/ EventsComplete
    \/ ProcessFileEntry
    \/ SidecarProbeStart
    \/ SidecarProbeDone
    \/ SpawnWorker
    \/ AwaitCheckCancel
    \/ AwaitKillDone
    \/ AwaitExit
    \/ AwaitTimeout
    \/ AwaitCancelled
    \/ WaitWithTimeout
    \/ WaitPlain
    \/ RerunDone
    \/ ResolveOutput
    \/ \E i \in Files : WorkerExit(i)
    \/ CancelToken

Spec == Init /\ [][Next]_vars

\* The steps taken by the orchestrator and the coordinators themselves.
OrchNext ==
    \/ SingleCall
    \/ SingleReturn
    \/ BatchNextFile
    \/ BatchCollect
    \/ BatchReturn
    \/ EventsNextFile
    \/ EventsCollect
    \/ EventsComplete
    \/ ProcessFileEntry
    \/ SidecarProbeStart
    \/ SidecarProbeDone
    \/ SpawnWorker
    \/ AwaitCheckCancel
    \/ AwaitKillDone
    \/ AwaitExit
    \/ AwaitTimeout
    \/ AwaitCancelled
    \/ WaitWithTimeout
    \/ WaitPlain
    \/ RerunDone
    \/ ResolveOutput

\* The runtime keeps polling ready tasks and its timers do fire; nothing
\* obliges the worker to exit or the token's owner to cancel.
FairSpec == Spec /\ WF_vars(OrchNext)

----------------------------------------------------------------------------
(* Properties *)

Runs == 1..Len(outcomes)
Worker(k) == child[outcomes[k].file]
Awaiting == pc \in {"select", "wait_timeout", "wait_plain"}

\* C1: a run whose concurrent cancellation wait fired has, by the time it
\* has returned its cancellation error, killed the worker it spawned: it
\* never leaves behind a running worker to which no kill was issued.
C1_CancelKillsChild ==
    \A k \in Runs :
        outcomes[k].why = "cancel_select" =>
            ~(Worker(k).st = "running" /\ ~Worker(k).kill_sent)

\* C2: with a token, with or without a sink, a run whose token was triggered
\* while its worker was running never returns a TranscriptionResult.
C2_CancelBeforeExitNeverOk ==
    \A k \in Runs :
        (has_token /\ cancel_at.st = "running"
                   /\ cancel_at.file = outcomes[k].file) =>
            outcomes[k].kind # "Ok"

\* C3: every run that ended because the token was observed triggered (before
\* the spawn, right before the wait, or by the concurrent wait) returned
\* ProcessingError.
C3_CancelIsProcessingError ==
    \A k \in Runs :
        outcomes[k].why \in {"cancel_pre", "cancel_prewait", "cancel_select"}
            => outcomes[k].kind = "ProcessingError"

\* C4: when the triggered token and the worker's zero exit are both
\* observable while the orchestrator sits in its select, the wait does not
\* resolve to the completion path (Saving 100%, then the resolver).
C4_CancelWinsRace ==
    [][(pc = "select" /\ token /\ ChildExited(index)
                      /\ child[index].code = 0) => pc' # "resolve"]_vars

\* C5: a run that returned the timed-out CliError had issued a kill to its
\* worker.
C5_TimeoutKillsChild ==
    \A k \in Runs :
        outcomes[k].why = "timeout" => Worker(k).kill_sent

\* C6: a run that waits for its worker does not wait forever: unless the
\* worker exits or cancellation is requested, the wait ends (by timeout).
C6_TimeoutBoundsRun ==
    Awaiting ~> (~Awaiting \/ token \/ ChildExited(index))

OkFiles(os) ==
    LET sel == SelectSeq(os, LAMBDA o : o.kind = "Ok")
    IN  [k \in 1..Len(sel) |-> sel[k].file]

\* C7: process_batch never returns Err, and when it has returned, every
\* file was run once, in input order, and the result list holds exactly the
\* files whose run succeeded, in input order.
C7_BatchPartialFailure ==
    /\ batch_ret # "Err"
    /\ (mode = "batch" /\ bpc = "done") =>
          /\ batch_ret = "Ok"
          /\ Len(outcomes) = N
          /\ \A k \in Runs : outcomes[k].file = k
          /\ results = OkFiles(outcomes)

\* C7 witness: a finished batch of two files whose first run failed and
\* whose second run succeeded.
C7_Witness ==
    /\ mode = "batch"
    /\ bpc = "done"
    /\ N = 2
    /\ Len(outcomes) = 2
    /\ outcomes[1].kind = "CliError"
    /\ outcomes[2].kind = "Ok"
    /\ results = << 2 >>

Alive(i) == ChildRunning(i) \/ rerun[i] = "running"

\* C8: within one batch at most one worker is alive at any time.
C8_OneWorkerPerBatch ==
    mode \in {"batch", "events"} =>
        Cardinality({i \in Files : Alive(i)}) <= 1

\* C9: the worker is executed with the transcription arguments at most once
\* per single-file run.
C9_NoRelaunch ==
    \A i \in Files : launches[i] <= 1

\* C10: in both modes a worker is only ever spawned after the `--version`
\* probe of that run succeeded.
C10_ProbeBeforeSpawn ==
    \A i \in Files : child[i].st # "none" => child[i].probed

----------------------------------------------------------------------------
(* Output parser: CliManager::parse_and_emit_progress                      *)
(*                                                                         *)
(* A line is a sequence of lexical tokens: a maximal run of digits is one  *)
(* "num" token (value v, w digits), "-->" stands for " --> ", "sp" for a   *)
(* white-space character, and the remaining kinds are the literal texts    *)
(* the recognizers look for.                                               *)

\* Largest number of fragments concatenated into one line.
MaxFrags == 2

Tok(k) == [k |-> k, v |-> 0, w |-> 0]
Num(v, w) == [k |-> "num", v |-> v, w |-> w]

Is(t, i, k) == i \in 1..Len(t) /\ t[i].k = k
IsNum(t, i) == Is(t, i, "num")
IsNumW(t, i, w) == IsNum(t, i) /\ t[i].w = w

Min(S) == CHOOSE x \in S : \A y \in S : x <= y

\* Position of the leftmost match of a recognizer, 0 when there is none.
Leftmost(t, At(_, _)) ==
    LET S == {i \in 1..Len(t) : At(t, i)}
    IN  IF S = {} THEN 0 ELSE Min(S)

\* \s* : the first position at or after i that holds no white space.
RECURSIVE SkipSpaces(_, _)
SkipSpaces(t, i) == IF Is(t, i, "sp") THEN SkipSpaces(t, i + 1) ELSE i

\* [^|]*\| : the position of the next "|" at or after i, 0 when none.
NextPipe(t, i) ==
    LET S == {j \in i..Len(t) : t[j].k = "|"}
    IN  IF S = {} THEN 0 ELSE Min(S)

RECURSIVE Pow10(_)
Pow10(w) == IF w = 0 THEN 1 ELSE 10 * Pow10(w - 1)

\* \[(\d{2}):(\d{2})\.(\d{3}) --> (\d{2}):(\d{2})\.(\d{3})\]
SegAt(t, i) ==
    /\ Is(t, i, "[")
    /\ IsNumW(t, i + 1, 2) /\ Is(t, i + 2, ":")
    /\ IsNumW(t, i + 3, 2) /\ Is(t, i + 4, ".")
    /\ IsNumW(t, i + 5, 3) /\ Is(t, i + 6, "-->")
    /\ IsNumW(t, i + 7, 2) /\ Is(t, i + 8, ":")
    /\ IsNumW(t, i + 9, 2) /\ Is(t, i + 10, ".")
    /\ IsNumW(t, i + 11, 3) /\ Is(t, i + 12, "]")

\* (\d+)%\|[^|]*\|\s*(\d+)/(\d+)\s*\[
TqdmAt(t, i) ==
    /\ IsNum(t, i) /\ Is(t, i + 1, "%") /\ Is(t, i + 2, "|")
    /\ LET j == NextPipe(t, i + 3)
       IN  /\ j # 0
           /\ LET a == SkipSpaces(t, j + 1)
              IN  /\ IsNum(t, a) /\ Is(t, a + 1, "/") /\ IsNum(t, a + 2)
                  /\ Is(t, SkipSpaces(t, a + 3), "[")

\* Position of the "%" of \((\d+(?:\.\d+)?)%\) whose "(" is at a.
CliPercentEnd(t, a) ==
    IF Is(t, a + 2, ".") /\ IsNum(t, a + 3) /\ Is(t, a + 4, "%")
    THEN a + 4
    ELSE a + 2

\* \[(\d+)/(\d+)\]\s*\((\d+(?:\.\d+)?)%\)\s*Processing:
CliAt(t, i) ==
    /\ Is(t, i, "[") /\ IsNum(t, i + 1) /\ Is(t, i + 2, "/")
    /\ IsNum(t, i + 3) /\ Is(t, i + 4, "]")
    /\ LET a == SkipSpaces(t, i + 5)
           b == CliPercentEnd(t, a)
       IN  /\ Is(t, a, "(") /\ IsNum(t, a + 1)
           /\ Is(t, b, "%") /\ Is(t, b + 1, ")")
           /\ Is(t, SkipSpaces(t, b + 2), "Processing:")

\* (\d+)%
PctAt(t, i) == IsNum(t, i) /\ Is(t, i + 1, "%")

\* line.contains(..) for the three literals the parser looks for.
ContainsLoadingWhisperModel(t) ==
    \E i \in 1..Len(t) : t[i].k = "Loading Whisper model"
ContainsTranscribing(t) == \E i \in 1..Len(t) : t[i].k = "Transcribing"
ContainsLoading(t) ==
    \E i \in 1..Len(t) : t[i].k \in {"Loading", "Loading Whisper model"}

\* A ProcessingProgress as the parser builds it; progress is num / den.
Ev(stage, num, den) == [stage |-> stage, num |-> num, den |-> den]

\* caps[3] of the [i/n] (p%) recognizer, parsed as f64.
CliPercent(t, i) ==
    LET a == SkipSpaces(t, i + 5)
    IN  IF CliPercentEnd(t, a) = a + 4
        THEN [num |-> t[a + 1].v * Pow10(t[a + 3].w) + t[a + 3].v,
              den |-> Pow10(t[a + 3].w)]
        ELSE [num |-> t[a + 1].v, den |-> 1]

\* SegProgress with the estimate capped at 100 instead of 90.
SegProgress_Cap100(end_min, end_sec) ==
    LET current_time == end_min * 60 + end_sec
    IN  IF 100 * current_time > 100 * 300
        THEN [num |-> 100, den |-> 1]
        ELSE [num |-> 100 * current_time, den |-> 300]

\* Progress derived from the end time of a segment marker.
SegProgress(end_min, end_sec) ==
    LET current_time == end_min * 60 + end_sec
    IN  IF 100 * current_time > 90 * 300
        THEN [num |-> 90, den |-> 1]
        ELSE [num |-> 100 * current_time, den |-> 300]

\* ParseLine with the bare percentage tried before the progress bar and the
\* [i/n] (p%) marker.
ParseLine_PercentFirst(t) ==
    LET s == Leftmost(t, SegAt)
        q == Leftmost(t, TqdmAt)
        c == Leftmost(t, CliAt)
        p == Leftmost(t, PctAt)
    IN  IF s # 0
        THEN LET pr == SegProgress(t[s + 7].v, t[s + 9].v)
             IN  << Ev("Transcribing", pr.num, pr.den) >>
        ELSE IF p # 0
        THEN << Ev("Transcribing", t[p].v, 1) >>
        ELSE IF q # 0
        THEN << Ev("Transcribing", t[q].v, 1) >>
        ELSE IF c # 0
        THEN LET pr == CliPercent(t, c)
             IN  << Ev("Transcribing", pr.num, pr.den) >>
        ELSE IF ContainsLoadingWhisperModel(t)
        THEN << Ev("Initializing", 10, 1) >>
        ELSE IF ContainsTranscribing(t) /\ ~ContainsLoading(t)
        THEN << Ev("Transcribing", 25, 1) >>
        ELSE << >>

\* The events one call delivers for line t.  A digit run always parses as
\* f64, so no recognizer that matched falls through to the next one.
ParseLine(t) ==
    LET s == Leftmost(t, SegAt)
        q == Leftmost(t, TqdmAt)
        c == Leftmost(t, CliAt)
        p == Leftmost(t, PctAt)
    IN  IF s # 0
        THEN LET pr == SegProgress(t[s + 7].v, t[s + 9].v)
             IN  << Ev("Transcribing", pr.num, pr.den) >>
        ELSE IF q # 0
        THEN << Ev("Transcribing", t[q].v, 1) >>
        ELSE IF c # 0
        THEN LET pr == CliPercent(t, c)
             IN  << Ev("Transcribing", pr.num, pr.den) >>
        ELSE IF p # 0
        THEN << Ev("Transcribing", t[p].v, 1) >>
        ELSE IF ContainsLoadingWhisperModel(t)
        THEN << Ev("Initializing", 10, 1) >>
        ELSE IF ContainsTranscribing(t) /\ ~ContainsLoading(t)
        THEN << Ev("Transcribing", 25, 1) >>
        ELSE << >>

\* Worker output the model feeds to the parser.
RECURSIVE Digits(_)
Digits(v) == IF v < 10 THEN 1 ELSE 1 + Digits(v \div 10)

Stamp(m, sec) == << Num(m, 2), Tok(":"), Num(sec, 2), Tok("."), Num(0, 3) >>

SegFragment(from, to) ==
    << Tok("[") >> \o Stamp(from[1], from[2]) \o << Tok("-->") >>
                   \o Stamp(to[1], to[2]) \o << Tok("]") >>

\* "[0:30.000 --> 0:45.000]": one-digit minutes, not a segment marker
ShortSegFragment ==
    << Tok("["), Num(0, 1), Tok(":"), Num(30, 2), Tok("."), Num(0, 3),
       Tok("-->"), Num(0, 1), Tok(":"), Num(45, 2), Tok("."), Num(0, 3),
       Tok("]") >>

\* "96%|####| 213478/222478 [03:06<..."
TqdmFragment(pct) ==
    << Num(pct, Digits(pct)), Tok("%"), Tok("|"), Tok("bar"), Tok("|"), Tok("sp"),
       Num(213478, 6), Tok("/"), Num(222478, 6), Tok("sp"), Tok("[") >>

\* "[1/2] (50%) Processing:" and "[1/2] (50.5%) Processing:"
CliFragment(pct, frac) ==
    << Tok("["), Num(1, 1), Tok("/"), Num(2, 1), Tok("]"), Tok("sp"),
       Tok("("), Num(pct, Digits(pct)) >>
    \o (IF frac < 0 THEN << >> ELSE << Tok("."), Num(frac, 1) >>)
    \o << Tok("%"), Tok(")"), Tok("sp"), Tok("Processing:") >>

PctFragment(pct) == << Num(pct, Digits(pct)), Tok("%") >>

StartTimes == { << 0, 0 >>, << 7, 7 >> }
EndTimes == { << 0, 0 >>, << 0, 30 >>, << 4, 30 >>, << 4, 31 >>,
              << 5, 0 >>, << 99, 99 >> }
Percents == {0, 50, 100, 150}

Fragments ==
    {SegFragment(a, b) : a \in StartTimes, b \in EndTimes}
    \cup {ShortSegFragment}
    \cup {TqdmFragment(pct) : pct \in Percents}
    \cup {CliFragment(pct, f) : pct \in {50, 150}, f \in {-1, 5}}
    \cup {PctFragment(pct) : pct \in Percents}
    \cup {<< Tok(w) >> : w \in {"Loading Whisper model", "Transcribing",
                                "Loading", "sp", "text"}}

RECURSIVE LinesOf(_)
LinesOf(n) ==
    IF n = 0 THEN {<< >>}
    ELSE LET shorter == LinesOf(n - 1)
         IN  shorter \cup {l \o f : l \in shorter, f \in Fragments}

Lines == LinesOf(MaxFrags)

\* The coordinators and the orchestrator are not running.
OrchIdle ==
    /\ mode = "none"
    /\ use_sidecar = FALSE
    /\ has_callback = FALSE
    /\ has_token = FALSE
    /\ file_exists = << >>
    /\ token = FALSE
    /\ bpc = "idle"
    /\ index = 1
    /\ results = << >>
    /\ batch_ret = "none"
    /\ pc = "idle"
    /\ a_state = "init"
    /\ probe = << >>
    /\ child = << >>
    /\ rerun = << >>
    /\ launches = << >>
    /\ outcomes = << >>
    /\ events = << >>
    /\ app_events = << >>
    /\ batch_progress = << >>
    /\ cancel_at = [file |-> 0, st |-> "none"]

OrchVars == << mode, use_sidecar, has_callback, has_token, file_exists,
               token, bpc, index, results, batch_ret, pc, a_state, probe,
               child, rerun, launches, outcomes, events, app_events,
               batch_progress, cancel_at >>

ParseInit ==
    /\ OrchIdle
    /\ active_jobs = {}
    /\ RegIdle
    /\ AuxIdle
    /\ ResolverIdle
    /\ line \in Lines
    /\ emitted = << >>
    /\ parse_pc = "ready"

\* One call of parse_and_emit_progress: the callback receives the events.
ParseAndEmit ==
    /\ parse_pc = "ready"
    /\ emitted' = ParseLine(line)
    /\ parse_pc' = "done"
    /\ UNCHANGED << OrchVars, active_jobs, RegRest, ResolverVars, AuxVars,
                    line >>

ParseNext == ParseAndEmit

ParseSpec == ParseInit /\ [][ParseNext]_vars

\* Whether recognizer r of the parser's list matches line t.
Matches(t, r) ==
    CASE r = 1 -> \E i \in 1..Len(t) : SegAt(t, i)
      [] r = 2 -> \E i \in 1..Len(t) : TqdmAt(t, i)
      [] r = 3 -> \E i \in 1..Len(t) : CliAt(t, i)
      [] r = 4 -> \E i \in 1..Len(t) : PctAt(t, i)
      [] r = 5 -> ContainsLoadingWhisperModel(t)
      [] r = 6 -> ContainsTranscribing(t) /\ ~ContainsLoading(t)

\* The highest-priority recognizer that matches, 0 when none does.
Recognizer(t) ==
    LET S == {r \in 1..6 : Matches(t, r)}
    IN  IF S = {} THEN 0 ELSE Min(S)

\* The percentage recognizer r (2, 3 or 4) captures, as num / den.
Captured(t, r) ==
    CASE r = 2 -> [num |-> t[Leftmost(t, TqdmAt)].v, den |-> 1]
      [] r = 3 -> CliPercent(t, Leftmost(t, CliAt))
      [] r = 4 -> [num |-> t[Leftmost(t, PctAt)].v, den |-> 1]

\* C17: the event of a line whose emitting recognizer is the progress bar,
\* the [i/n] (p%) marker or the bare percentage has stage Transcribing and
\* a progress that is the captured percentage clamped to [0, 100].
C17_PercentClamped ==
    (parse_pc = "done" /\ Recognizer(line) \in {2, 3, 4}) =>
        LET cap == Captured(line, Recognizer(line))
        IN  /\ Len(emitted) = 1
            /\ emitted[1].stage = "Transcribing"
            /\ emitted[1].num <= 100 * emitted[1].den
            /\ IF cap.num > 100 * cap.den
               THEN emitted[1].num = 100 * emitted[1].den
               ELSE emitted[1].num * cap.den = cap.num * emitted[1].den

\* End time in seconds of the leftmost segment marker of line t.
EndSeconds(t) ==
    LET s == Leftmost(t, SegAt) IN t[s + 7].v * 60 + t[s + 9].v

\* C18: a line with a timestamp range yields one Transcribing event whose
\* progress is min(90, 100 * end_seconds / 300), hence at most 90.
C18_SegmentProgressCapped ==
    (parse_pc = "done" /\ Matches(line, 1)) =>
        /\ Len(emitted) = 1
        /\ emitted[1].stage = "Transcribing"
        /\ emitted[1].num <= 90 * emitted[1].den
        /\ 300 * emitted[1].num =
              emitted[1].den * (IF 100 * EndSeconds(line) > 27000
                                THEN 27000
                                ELSE 100 * EndSeconds(line))

\* C18 witness: a marker ending at 04:31 (271 s, estimate 90.33) parsed
\* to progress 90.
C18_Witness ==
    /\ parse_pc = "done"
    /\ Matches(line, 1)
    /\ EndSeconds(line) = 271
    /\ emitted = << Ev("Transcribing", 90, 1) >>

\* The event the claimed priority list prescribes for line t.
Prescribed(t) ==
    LET r == Recognizer(t)
    IN  CASE r = 0 -> << >>
          [] r = 1 -> LET pr == SegProgress(t[Leftmost(t, SegAt) + 7].v,
                                            t[Leftmost(t, SegAt) + 9].v)
                      IN  << Ev("Transcribing", pr.num, pr.den) >>
          [] r \in {2, 3, 4} ->
                 << Ev("Transcribing", Captured(t, r).num,
                       Captured(t, r).den) >>
          [] r = 5 -> << Ev("Initializing", 10, 1) >>
          [] r = 6 -> << Ev("Transcribing", 25, 1) >>

\* C19: a call emits at most one event, the one of the highest-priority
\* matching recognizer, and none when no recognizer matches.
C19_FirstMatchWins ==
    parse_pc = "done" =>
        /\ Len(emitted) <= 1
        /\ emitted = Prescribed(line)

\* C19 witness: "[1/2] (50.5%) Processing:" preceded by the word
\* Transcribing matches recognizers 3, 4 and 6; the event is the one of 3.
C19_Witness ==
    /\ parse_pc = "done"
    /\ Matches(line, 3) /\ Matches(line, 4) /\ Matches(line, 6)
    /\ Recognizer(line) = 3
    /\ emitted = << Ev("Transcribing", 505, 10) >>

----------------------------------------------------------------------------
(* Job registry: BatchProcessingManager (lib.rs)                           *)
(*                                                                         *)
(* The methods are functions from the manager's value m to its new value.  *)
(* m.tokens and m.task are the token and task objects the maps refer to:   *)
(* cancelling a token or aborting a task changes them.                     *)

NewJob == [num |-> 0, den |-> 1, stage |-> "Initializing",
           is_cancelled |-> FALSE]

\* The manager as one value: active_jobs is the map id -> job.
Manager ==
    [active_jobs |-> job_data,
     job_handles |-> job_handles,
     cancellation_tokens |-> cancellation_tokens,
     tokens |-> tokens,
     task |-> task]

SetManager(m) ==
    /\ active_jobs' = DOMAIN m.active_jobs
    /\ job_data' = m.active_jobs
    /\ job_handles' = m.job_handles
    /\ cancellation_tokens' = m.cancellation_tokens
    /\ tokens' = m.tokens
    /\ task' = m.task

Insert(f, k, v) == [x \in DOMAIN f \cup {k} |-> IF x = k THEN v ELSE f[x]]
Remove(f, k) == [x \in DOMAIN f \ {k} |-> f[x]]

\* JoinHandle::abort: a task that has not finished stops at its await.
Abort(t) == IF t \in {"none", "done", "aborted"} THEN t ELSE "aborted"

add_job(m, id, job) ==
    [m EXCEPT !.active_jobs = Insert(m.active_jobs, id, job)]

get_job(m, id) ==
    IF id \in DOMAIN m.active_jobs THEN << m.active_jobs[id] >> ELSE << >>

\* update_job_progress that inserts a job when the id has none.
update_job_progress_Upsert(m, id, progress) ==
    IF id \in DOMAIN m.active_jobs
    THEN [m EXCEPT !.active_jobs[id].num = progress.num,
                   !.active_jobs[id].den = progress.den,
                   !.active_jobs[id].stage = progress.stage]
    ELSE [m EXCEPT !.active_jobs =
             Insert(m.active_jobs, id,
                    [num |-> progress.num, den |-> progress.den,
                     stage |-> progress.stage, is_cancelled |-> FALSE])]

update_job_progress(m, id, progress) ==
    IF id \in DOMAIN m.active_jobs
    THEN [m EXCEPT !.active_jobs[id].num = progress.num,
                   !.active_jobs[id].den = progress.den,
                   !.active_jobs[id].stage = progress.stage]
    ELSE m

\* remove_job that forgets to trigger the removed token.
remove_job_NoCancel(m, id) ==
    [m EXCEPT !.active_jobs = Remove(m.active_jobs, id),
              !.job_handles = m.job_handles \ {id},
              !.task = IF id \in m.job_handles
                       THEN [m.task EXCEPT ![id] = Abort(m.task[id])]
                       ELSE m.task,
              !.cancellation_tokens = m.cancellation_tokens \ {id}]

remove_job(m, id) ==
    [m EXCEPT !.active_jobs = Remove(m.active_jobs, id),
              !.job_handles = m.job_handles \ {id},
              !.task = IF id \in m.job_handles
                       THEN [m.task EXCEPT ![id] = Abort(m.task[id])]
                       ELSE m.task,
              !.cancellation_tokens = m.cancellation_tokens \ {id},
              !.tokens = IF id \in m.cancellation_tokens
                         THEN [m.tokens EXCEPT ![id] = TRUE]
                         ELSE m.tokens]

\* cancel_job that triggers every registered token.
cancel_job_AllTokens(m, id) ==
    LET marked == IF id \in DOMAIN m.active_jobs
                  THEN [m EXCEPT !.active_jobs[id].is_cancelled = TRUE]
                  ELSE m
    IN  IF id \in m.cancellation_tokens
        THEN [marked EXCEPT !.tokens =
                 [x \in DOMAIN m.tokens |->
                     m.tokens[x] \/ x \in m.cancellation_tokens]]
        ELSE marked

\* cancel_job: the new manager value.
cancel_job(m, id) ==
    LET marked == IF id \in DOMAIN m.active_jobs
                  THEN [m EXCEPT !.active_jobs[id].is_cancelled = TRUE]
                  ELSE m
    IN  IF id \in m.cancellation_tokens
        THEN [marked EXCEPT !.tokens[id] = TRUE]
        ELSE marked

\* cancel_job_returns with the answer taken from the job map.
cancel_job_returns_ByJob(m, id) == id \in DOMAIN m.active_jobs

\* cancel_job: the value it returns.
cancel_job_returns(m, id) == id \in m.cancellation_tokens

\* A fresh token is stored under id.
add_cancellation_token(m, id) ==
    [m EXCEPT !.cancellation_tokens = m.cancellation_tokens \cup {id},
              !.tokens[id] = FALSE]

add_job_handle(m, id) ==
    [m EXCEPT !.job_handles = m.job_handles \cup {id}]

get_active_jobs(m) == DOMAIN m.active_jobs

\* What a registry call is remembered by: its result, what the manager
\* held under id before it, and whether it changed the manager.
Op(name, id, ret, after) ==
    [op |-> name, id |-> id, ret |-> ret,
     had_job |-> id \in active_jobs,
     had_handle |-> id \in job_handles,
     had_token |-> id \in cancellation_tokens,
     was_fired |-> tokens[id],
     changed |-> after # Manager]

----------------------------------------------------------------------------
(* The manager's public methods, called in any order on two ids           *)

RegFlow == << start_pc, file_idx, lines_left, pending_updates, job_events >>

ApiInit ==
    /\ OrchIdle
    /\ active_jobs = {}
    /\ RegIdle
    /\ AuxIdle
    /\ ParserIdle
    /\ ResolverIdle

\* A progress value a caller passes to update_job_progress.
ApiProgress == Ev("Transcribing", 50, 1)

ApiCall(name, id, ret, after) ==
    /\ SetManager(after)
    /\ last_op' = Op(name, id, ret, after)
    /\ UNCHANGED << OrchVars, PureVars, RegFlow >>

ApiAddJob(id) == ApiCall("add_job", id, "unit", add_job(Manager, id, NewJob))

ApiGetJob(id) == ApiCall("get_job", id, get_job(Manager, id), Manager)

ApiUpdateJobProgress(id) ==
    ApiCall("update_job_progress", id, "unit",
            update_job_progress(Manager, id, ApiProgress))

ApiRemoveJob(id) == ApiCall("remove_job", id, "unit", remove_job(Manager, id))

ApiCancelJob(id) ==
    ApiCall("cancel_job", id, cancel_job_returns(Manager, id),
            cancel_job(Manager, id))

ApiAddCancellationToken(id) ==
    ApiCall("add_cancellation_token", id, "unit",
            add_cancellation_token(Manager, id))

\* The handle is that of a task the caller has just spawned.
ApiAddJobHandle(id) ==
    ApiCall("add_job_handle", id, "unit",
            add_job_handle([Manager EXCEPT !.task[id] = "running"], id))

ApiGetActiveJobs ==
    ApiCall("get_active_jobs", "A", get_active_jobs(Manager), Manager)

ApiNext ==
    \/ \E id \in JobIds : ApiAddJob(id)
    \/ \E id \in JobIds : ApiGetJob(id)
    \/ \E id \in JobIds : ApiUpdateJobProgress(id)
    \/ \E id \in JobIds : ApiRemoveJob(id)
    \/ \E id \in JobIds : ApiCancelJob(id)
    \/ \E id \in JobIds : ApiAddCancellationToken(id)
    \/ \E id \in JobIds : ApiAddJobHandle(id)
    \/ ApiGetActiveJobs

ApiSpec == ApiInit /\ [][ApiNext]_vars

\* C13: cancel_job(id) returns true exactly when a token was registered
\* under id when it was called, and then that token is triggered; a
\* cancel_job(id) that follows remove_job(id) returns false.
C13_CancelReturnsTokenPresence ==
    /\ [](last_op.op = "cancel_job" =>
            /\ last_op.ret = last_op.had_token
            /\ last_op.ret => tokens[last_op.id])
    /\ [][(/\ last_op.op = "remove_job"
           /\ last_op'.op = "cancel_job"
           /\ last_op'.id = last_op.id) => last_op'.ret = FALSE]_vars

C13_Witness ==
    /\ last_op.op = "cancel_job"
    /\ last_op.ret = TRUE
    /\ ~last_op.was_fired
    /\ tokens[last_op.id]

\* C14: remove_job(id) leaves no job, handle or token under id, has
\* aborted the task whose handle it held and triggered the token it held;
\* when nothing was held under id the manager is unchanged.
C14_RemoveJobCleansUp ==
    last_op.op = "remove_job" =>
        /\ last_op.id \notin active_jobs
        /\ last_op.id \notin DOMAIN job_data
        /\ last_op.id \notin job_handles
        /\ last_op.id \notin cancellation_tokens
        /\ last_op.had_handle => task[last_op.id] = "aborted"
        /\ last_op.had_token => tokens[last_op.id]
        /\ (~last_op.had_job /\ ~last_op.had_handle /\ ~last_op.had_token)
              => ~last_op.changed

C14_Witness ==
    /\ last_op.op = "remove_job"
    /\ last_op.had_job
    /\ last_op.had_handle
    /\ last_op.had_token
    /\ ~last_op.was_fired
    /\ last_op.changed

----------------------------------------------------------------------------
(* The batch commands of the application (lib.rs): start_batch_processing, *)
(* cancel_batch_processing, the background task process_batch_with_events  *)
(* and the update tasks its progress callback spawns, for two jobs.        *)

MaxJobFiles == 1
MaxJobLines == 1

\* Lines a worker prints while it transcribes one file.
WorkerLines ==
    { PctFragment(150),
      SegFragment(<< 0, 0 >>, << 0, 30 >>) }

JobEvent(name, file, p) ==
    [name |-> name, file |-> file,
     stage |-> p.stage, num |-> p.num, den |-> p.den]

NoProgress == Ev("none", 0, 1)

Emit(id, es) == job_events' = [job_events EXCEPT ![id] = @ \o es]

Names(id) == { job_events[id][i].name : i \in 1..Len(job_events[id]) }

RegInit ==
    /\ OrchIdle
    /\ active_jobs = {}
    /\ RegIdle
    /\ AuxIdle
    /\ ParserIdle
    /\ ResolverIdle

\* What create_audio_file finds for a path: a supported audio file, a
\* path that does not exist, or an extension that is not supported.
PathStates == {"ok", "missing", "unsupported"}

PathLists == [1..MaxJobFiles -> PathStates]

CreateError(p) == IF p = "missing" THEN "FileNotFound" ELSE "UnsupportedFormat"

\* The validation loop: the error of the first path that fails, else "ok".
RECURSIVE ValidateFrom(_, _)
ValidateFrom(paths, i) ==
    IF i > Len(paths) THEN "ok"
    ELSE IF paths[i] # "ok" THEN CreateError(paths[i])
    ELSE ValidateFrom(paths, i + 1)

StartErrors == {"FileNotFound", "UnsupportedFormat"}

\* StartRegister that fills the registry before it validates the paths.
StartRegister_RegisterFirst(id) ==
    /\ start_pc[id] = "none"
    /\ \E paths \in PathLists :
         IF ValidateFrom(paths, 1) = "ok"
         THEN /\ SetManager([add_cancellation_token(
                                 add_job(Manager, id, NewJob), id)
                               EXCEPT !.task[id] = "head"])
              /\ start_pc' = [start_pc EXCEPT ![id] = "spawned"]
         ELSE /\ SetManager(add_cancellation_token(
                                add_job(Manager, id, NewJob), id))
              /\ start_pc' = [start_pc EXCEPT ![id] = ValidateFrom(paths, 1)]
    /\ UNCHANGED << OrchVars, PureVars, file_idx, lines_left,
                    pending_updates, job_events, last_op >>

\* start_batch_processing up to tokio::spawn: validation of the paths, the
\* first lock block (add_job, add_cancellation_token), then the spawn.  A
\* path that fails validation makes the call return its error.
StartRegister(id) ==
    /\ start_pc[id] = "none"
    /\ \E paths \in PathLists :
         IF ValidateFrom(paths, 1) = "ok"
         THEN /\ SetManager([add_cancellation_token(
                                 add_job(Manager, id, NewJob), id)
                               EXCEPT !.task[id] = "head"])
              /\ start_pc' = [start_pc EXCEPT ![id] = "spawned"]
         ELSE /\ start_pc' = [start_pc EXCEPT ![id] = ValidateFrom(paths, 1)]
              /\ UNCHANGED << active_jobs, job_data, job_handles,
                              cancellation_tokens, tokens, task >>
    /\ UNCHANGED << OrchVars, PureVars, file_idx, lines_left,
                    pending_updates, job_events, last_op >>

\* start_batch_processing: the second lock block stores the handle.
StartStoreHandle(id) ==
    /\ start_pc[id] = "spawned"
    /\ SetManager(add_job_handle(Manager, id))
    /\ start_pc' = [start_pc EXCEPT ![id] = "returned"]
    /\ UNCHANGED << OrchVars, PureVars, file_idx, lines_left,
                    pending_updates, job_events, last_op >>

\* cancel_batch_processing(job_id), for any id a caller holds.
CancelCommand(id) ==
    /\ SetManager(cancel_job(Manager, id))
    /\ UNCHANGED << OrchVars, PureVars, RegFlow, last_op >>

\* TaskHead whose cancellation branch emits the event and goes on with
\* the file instead of returning.
TaskHead_NoReturn(id) ==
    /\ task[id] = "head"
    /\ file_idx[id] < MaxJobFiles
    /\ IF tokens[id]
       THEN /\ Emit(id, << JobEvent("batch-cancelled", file_idx[id],
                                     NoProgress) >>)
            /\ task' = [task EXCEPT ![id] = "entry"]
            /\ UNCHANGED << active_jobs, job_data >>
       ELSE LET p == Ev("Initializing", 100 * file_idx[id], MaxJobFiles)
            IN  /\ active_jobs' = active_jobs
                /\ job_data' = update_job_progress(Manager, id, p).active_jobs
                /\ Emit(id, << JobEvent("batch-progress", file_idx[id], p) >>)
                /\ task' = [task EXCEPT ![id] = "entry"]
    /\ UNCHANGED << OrchVars, PureVars, job_handles, cancellation_tokens,
                    tokens, start_pc, file_idx, lines_left, pending_updates,
                    last_op >>

\* Loop head: the cancellation check, the job update and "batch-progress".
TaskHead(id) ==
    /\ task[id] = "head"
    /\ file_idx[id] < MaxJobFiles
    /\ IF tokens[id]
       THEN /\ Emit(id, << JobEvent("batch-cancelled", file_idx[id],
                                     NoProgress) >>)
            /\ task' = [task EXCEPT ![id] = "done"]
            /\ UNCHANGED << active_jobs, job_data >>
       ELSE LET p == Ev("Initializing", 100 * file_idx[id], MaxJobFiles)
            IN  /\ active_jobs' = active_jobs
                /\ job_data' = update_job_progress(Manager, id, p).active_jobs
                /\ Emit(id, << JobEvent("batch-progress", file_idx[id], p) >>)
                /\ task' = [task EXCEPT ![id] = "entry"]
    /\ UNCHANGED << OrchVars, PureVars, job_handles, cancellation_tokens,
                    tokens, start_pc, file_idx, lines_left, pending_updates,
                    last_op >>

\* Update tasks of one job that have been spawned and wait for the lock;
\* a callback waits while MaxPending of them are outstanding.
MaxPending == 1

Waiting(id) == Cardinality({ u \in pending_updates : u.id = id })

\* The progress callback: "file-progress" and a spawned update task.
Callback(id, es) ==
    /\ Waiting(id) + Len(es) <= MaxPending
    /\ Emit(id, [i \in 1..Len(es) |->
                    JobEvent("file-progress", file_idx[id], es[i])])
    /\ pending_updates' = pending_updates \cup
           { [id |-> id, progress |-> es[i]] : i \in 1..Len(es) }

\* process_file_with_cancellation up to the spawn of the worker.
TaskFileEntry(id) ==
    /\ task[id] = "entry"
    /\ IF tokens[id]
       THEN /\ Emit(id, << JobEvent("file-error", file_idx[id],
                                     NoProgress) >>)
            /\ task' = [task EXCEPT ![id] = "check"]
            /\ UNCHANGED << lines_left, pending_updates >>
       ELSE /\ Callback(id, << Ev("Initializing", 0, 1) >>)
            /\ task' = [task EXCEPT ![id] = "file"]
            /\ lines_left' = [lines_left EXCEPT ![id] = MaxJobLines]
    /\ UNCHANGED << OrchVars, PureVars, active_jobs, job_data, job_handles,
                    cancellation_tokens, tokens, start_pc, file_idx, last_op >>

\* The reader task hands one worker line to parse_and_emit_progress.
TaskFileLine(id) ==
    /\ task[id] = "file"
    /\ lines_left[id] > 0
    /\ \E l \in WorkerLines : Callback(id, ParseLine(l))
    /\ lines_left' = [lines_left EXCEPT ![id] = @ - 1]
    /\ UNCHANGED << OrchVars, PureVars, active_jobs, job_data, job_handles,
                    cancellation_tokens, tokens, start_pc, task, file_idx,
                    last_op >>

\* The run of one file ends: Ok after the final progress event, or Err.
TaskFileEnd(id) ==
    /\ task[id] = "file"
    /\ \E ok \in BOOLEAN :
         IF ok
         THEN /\ Waiting(id) < MaxPending
              /\ Emit(id, << JobEvent("file-progress", file_idx[id],
                                       Ev("Saving", 100, 1)),
                             JobEvent("file-completed", file_idx[id],
                                       NoProgress) >>)
              /\ pending_updates' = pending_updates \cup
                     {[id |-> id, progress |-> Ev("Saving", 100, 1)]}
         ELSE /\ Emit(id, << JobEvent("file-error", file_idx[id],
                                       NoProgress) >>)
              /\ UNCHANGED pending_updates
    /\ task' = [task EXCEPT ![id] = "check"]
    /\ UNCHANGED << OrchVars, PureVars, active_jobs, job_data, job_handles,
                    cancellation_tokens, tokens, start_pc, file_idx,
                    lines_left, last_op >>

\* After each file: a job that is gone from the manager ends the batch.
TaskCheck(id) ==
    /\ task[id] = "check"
    /\ IF get_job(Manager, id) = << >>
       THEN /\ Emit(id, << JobEvent("batch-cancelled", file_idx[id],
                                     NoProgress) >>)
            /\ task' = [task EXCEPT ![id] = "done"]
            /\ UNCHANGED file_idx
       ELSE /\ file_idx' = [file_idx EXCEPT ![id] = @ + 1]
            /\ task' = [task EXCEPT ![id] = "head"]
            /\ UNCHANGED job_events
    /\ UNCHANGED << OrchVars, PureVars, active_jobs, job_data, job_handles,
                    cancellation_tokens, tokens, start_pc, lines_left,
                    pending_updates, last_op >>

Successful(id) ==
    Cardinality({ i \in 1..Len(job_events[id]) :
                    job_events[id][i].name = "file-completed" })

\* Past the last file: "batch-completed" with the number of results.
TaskComplete(id) ==
    /\ task[id] = "head"
    /\ file_idx[id] = MaxJobFiles
    /\ Emit(id, << JobEvent("batch-completed", file_idx[id],
                            Ev("none", Successful(id), 1)) >>)
    /\ task' = [task EXCEPT ![id] = "remove"]
    /\ UNCHANGED << OrchVars, PureVars, active_jobs, job_data, job_handles,
                    cancellation_tokens, tokens, start_pc, file_idx,
                    lines_left, pending_updates, last_op >>

\* The task's last lock block: remove_job; the task then returns.
TaskRemove(id) ==
    /\ task[id] = "remove"
    /\ SetManager([remove_job(Manager, id) EXCEPT !.task[id] = "done"])
    /\ UNCHANGED << OrchVars, PureVars, RegFlow, last_op >>

\* A spawned update task takes the lock and applies its progress.
ApplyUpdate ==
    \E u \in pending_updates :
        /\ pending_updates' = pending_updates \ {u}
        /\ active_jobs' = active_jobs
        /\ job_data' =
               update_job_progress(Manager, u.id, u.progress).active_jobs
        /\ last_op' = Op("update_job_progress", u.id, "unit",
                         update_job_progress(Manager, u.id, u.progress))
        /\ UNCHANGED << OrchVars, PureVars, job_handles,
                        cancellation_tokens, tokens, start_pc, task, file_idx,
                        lines_left, job_events >>

TaskStep(id) ==
    \/ TaskHead(id)
    \/ TaskFileEntry(id)
    \/ TaskFileLine(id)
    \/ TaskFileEnd(id)
    \/ TaskCheck(id)
    \/ TaskComplete(id)
    \/ TaskRemove(id)

RegNext ==
    \/ \E id \in JobIds : StartRegister(id)
    \/ \E id \in JobIds : StartStoreHandle(id)
    \/ \E id \in JobIds : CancelCommand(id)
    \/ \E id \in JobIds : TaskStep(id)
    \/ ApplyUpdate

RegSpec == RegInit /\ [][RegNext]_vars

\* The runtime keeps running every spawned task and every command that has
\* started, and each worker exits or times out, so each file's run ends.
RegFairSpec ==
    /\ RegSpec
    /\ \A id \in JobIds : WF_vars(TaskStep(id))
    /\ \A id \in JobIds : WF_vars(StartStoreHandle(id))
    /\ WF_vars(ApplyUpdate)

Ended(id) == task[id] = "done"

\* C11: once the batch of a registered job has ended, by completion or
\* after cancel_job, the job is eventually absent from the registry.
C11_EndedJobRemoved ==
    \A id \in JobIds : Ended(id) ~> (get_job(Manager, id) = << >>)

\* C12: a job that is visible in the registry has its cancellation token
\* and its task handle registered too.
C12_VisibleJobFullyRegistered ==
    \A id \in JobIds :
        get_job(Manager, id) # << >> =>
            /\ id \in cancellation_tokens
            /\ id \in job_handles

\* What the registry and the event stream hold for job b is the same
\* before and after the step.
Untouched(b) ==
    /\ get_job(Manager, b)' = get_job(Manager, b)
    /\ (b \in job_handles') = (b \in job_handles)
    /\ (b \in cancellation_tokens') = (b \in cancellation_tokens)
    /\ tokens'[b] = tokens[b]
    /\ task'[b] = task[b]
    /\ job_events'[b] = job_events[b]

FilesDone(id) ==
    Cardinality({ i \in 1..Len(job_events[id]) :
                    job_events[id][i].name \in {"file-completed", "file-error"} })

\* C15: a cancel_job(a) or remove_job(a) step leaves every other job's
\* entry, progress, token, handle, task and events as they were; a batch
\* is cut short only after cancel_job on its own id; a batch that was not
\* cut short has run every file and ends with "batch-completed"; and
\* every spawned batch task ends.
C15_OtherJobsUntouched ==
    /\ [][\A a \in JobIds :
            (CancelCommand(a) \/ TaskRemove(a)) =>
                \A b \in JobIds \ {a} : Untouched(b)]_vars
    /\ [](\A b \in JobIds :
            "batch-cancelled" \in Names(b) =>
                /\ get_job(Manager, b) # << >>
                /\ job_data[b].is_cancelled)
    /\ [](\A b \in JobIds :
            (Ended(b) /\ "batch-cancelled" \notin Names(b)) =>
                /\ job_events[b][Len(job_events[b])].name = "batch-completed"
                /\ FilesDone(b) = MaxJobFiles)
    /\ \A b \in JobIds : (task[b] = "head") ~> Ended(b)

C15_Witness ==
    /\ "batch-cancelled" \in Names("A")
    /\ job_data["A"].is_cancelled
    /\ Ended("B")
    /\ get_job(Manager, "B") = << >>
    /\ "batch-completed" \in Names("B")
    /\ Successful("B") = MaxJobFiles

\* C16: every job in the registry has progress within [0, 100].
C16_JobProgressInRange ==
    \A id \in DOMAIN job_data :
        /\ job_data[id].num >= 0
        /\ job_data[id].num <= 100 * job_data[id].den

----------------------------------------------------------------------------
(* Output resolver: parse_cli_completion (cli.rs)                          *)
(*                                                                         *)
(* A file name is a sequence of pieces: the letters of a stem, "_",        *)
(* "transcription", digits and an extension.  No piece occurs inside       *)
(* another, so a prefix, suffix or substring test on the string is the     *)
(* same test on the sequence of pieces.                                    *)

MaxEntries == 2

StartsWith(n, p) == Len(n) >= Len(p) /\ SubSeq(n, 1, Len(p)) = p

EndsWith(n, p) ==
    Len(n) >= Len(p) /\ SubSeq(n, Len(n) - Len(p) + 1, Len(n)) = p

Contains(n, p) ==
    \E i \in 1..(Len(n) - Len(p) + 1) : SubSeq(n, i, i + Len(p) - 1) = p

\* format!("{}_transcription.txt", base_name)
ExactName(base_name) == base_name \o << "_", "transcription", ".txt" >>

\* The filter of the directory scan: four patterns, any of them.
NameMatches(filename, base_name) ==
    LET timestamp_match ==
            /\ StartsWith(filename,
                          base_name \o << "_", "transcription", "_" >>)
            /\ EndsWith(filename, << ".txt" >>)
        exact_match == filename = ExactName(base_name)
        simple_match == filename = base_name \o << ".txt" >>
        contains_match ==
            /\ Contains(filename, base_name)
            /\ Contains(filename, << "transcription" >>)
            /\ EndsWith(filename, << ".txt" >>)
    IN  timestamp_match \/ exact_match \/ simple_match \/ contains_match

\* The text of the i-th candidate file.
Text(i) == << "text", i >>

Unreadable == << "Transcription completed but text could not be read", 0 >>

\* read_to_string(..).unwrap_or_else(|_| placeholder)
ReadOrPlaceholder(f, i) == IF f[i].readable THEN Text(i) ELSE Unreadable

\* Indices of the entries of directory d, in listing order.
RECURSIVE Listing(_, _, _)
Listing(f, d, i) ==
    IF i > Len(f) THEN << >>
    ELSE (IF f[i].dir = d THEN << i >> ELSE << >>) \o Listing(f, d, i + 1)

\* Insert index x into a list sorted by modification time, newest first,
\* after the entries that compare equal to it.
RECURSIVE InsertByTime(_, _, _)
InsertByTime(f, sorted, x) ==
    IF sorted = << >> THEN << x >>
    ELSE IF f[Head(sorted)].mtime >= f[x].mtime
         THEN << Head(sorted) >> \o InsertByTime(f, Tail(sorted), x)
         ELSE << x >> \o sorted

\* sort_by(|a, b| time_b.cmp(&time_a)): a stable sort.
RECURSIVE SortNewestFirst(_, _)
SortNewestFirst(f, is) ==
    IF is = << >> THEN << >>
    ELSE InsertByTime(f, SortNewestFirst(f, SubSeq(is, 1, Len(is) - 1)),
                      is[Len(is)])

Matching(f, base_name, d) ==
    SelectSeq(Listing(f, d, 1), LAMBDA i : NameMatches(f[i].name, base_name))

\* The search order with the home directory first.
SearchDirs_HomeFirst == << "home", "output", "work" >>

SearchDirs == << "work", "output", "home" >>

\* The scan: the first directory with a match gives its newest match.
RECURSIVE Scan(_, _, _)
Scan(f, base_name, k) ==
    IF k > Len(SearchDirs) THEN 0
    ELSE LET matching_files ==
                 SortNewestFirst(f, Matching(f, base_name, SearchDirs[k]))
         IN  IF matching_files # << >>
             THEN Head(matching_files)
             ELSE Scan(f, base_name, k + 1)

ResolveOk(f, i) ==
    [kind |-> "Ok", path |-> << f[i].dir, f[i].name >>,
     text |-> ReadOrPlaceholder(f, i), scanned |-> FALSE]

ResolveErr(kind) ==
    [kind |-> kind, path |-> << >>, text |-> << >>, scanned |-> FALSE]

\* Index of the exact file in the working directory, 0 when absent.
ExactFile(f, base_name) ==
    Leftmost(f, LAMBDA g, i :
                   g[i].dir = "work" /\ g[i].name = ExactName(base_name))

\* parse_cli_completion that scans before it looks at the exact file.
Resolve_ScanFirst(base_name, valid, f) ==
    IF ~valid THEN ResolveErr("Err")
    ELSE IF Scan(f, base_name, 1) # 0
         THEN [ResolveOk(f, Scan(f, base_name, 1)) EXCEPT !.scanned = TRUE]
         ELSE ResolveErr("CliError")

Resolve(base_name, valid, f) ==
    IF ~valid THEN ResolveErr("Err")
    ELSE IF ExactFile(f, base_name) # 0
         THEN ResolveOk(f, ExactFile(f, base_name))
         ELSE IF Scan(f, base_name, 1) # 0
              THEN [ResolveOk(f, Scan(f, base_name, 1))
                       EXCEPT !.scanned = TRUE]
              ELSE [ResolveErr("CliError") EXCEPT !.scanned = TRUE]

MaxCalls == 2

LogName == << "speechtotext_file_search", ".log" >>

\* Modification time of a file written by the call: later than any input.
Now == 3

\* The search log written under a name that matches the stem q.
WriteLog_AsText(f, d) ==
    LET at == Leftmost(f, LAMBDA g, i :
                             g[i].dir = d /\ g[i].name = << "q", ".txt" >>)
        log == [dir |-> d, name |-> << "q", ".txt" >>, mtime |-> Now,
                readable |-> TRUE]
    IN  IF at = 0 THEN Append(f, log) ELSE [f EXCEPT ![at] = log]

\* std::fs::write(desktop_path.join("speechtotext_file_search.log"), ..)
WriteLog(f, d) ==
    LET at == Leftmost(f, LAMBDA g, i : g[i].dir = d /\ g[i].name = LogName)
        log == [dir |-> d, name |-> LogName, mtime |-> Now,
                readable |-> TRUE]
    IN  IF at = 0 THEN Append(f, log) ELSE [f EXCEPT ![at] = log]

\* Input stems: one is a substring of the other.
Stems == { << "q" >>, << "z", "q" >> }

FileNames ==
    { << "q", "_", "transcription", ".txt" >>,
      << "q", "_", "transcription", "_", "1", ".txt" >>,
      << "q", ".txt" >>,
      << "z", "q", "_", "transcription", ".txt" >>,
      << "q", ".log" >> }

Entries ==
    [dir : {"work", "output", "home"}, name : FileNames,
     mtime : {1, 2}, readable : BOOLEAN]

\* Directory contents: no two entries of a directory share a name.
RECURSIVE FileSystems(_)
FileSystems(n) ==
    IF n = 0 THEN { << >> }
    ELSE LET shorter == FileSystems(n - 1)
         IN  shorter \cup
             { Append(f, e) : f \in { g \in shorter : Len(g) = n - 1 },
                              e \in Entries }

DistinctNames(f) ==
    \A i, j \in 1..Len(f) :
        (f[i].dir = f[j].dir /\ f[i].name = f[j].name) => i = j

DirRank(d) == CHOOSE k \in 1..Len(SearchDirs) : SearchDirs[k] = d

\* Only the order of the entries of one directory is observable, so the
\* directories are laid out one after the other.
GroupedByDir(f) ==
    \A i, j \in 1..Len(f) : i < j => DirRank(f[i].dir) <= DirRank(f[j].dir)

ResolveInit ==
    /\ OrchIdle
    /\ active_jobs = {}
    /\ RegIdle
    /\ AuxIdle
    /\ ParserIdle
    /\ stem \in Stems
    /\ audio_ok \in BOOLEAN
    /\ fs \in { f \in FileSystems(MaxEntries) :
                   DistinctNames(f) /\ GroupedByDir(f) }
    /\ log_dir \in {"desktop", "home"}
    /\ resolved = << >>

\* One call of parse_cli_completion: its result, and the search log it
\* writes unless create_audio_file has failed.
ResolveCall ==
    /\ Len(resolved) < MaxCalls
    /\ resolved' = Append(resolved, Resolve(stem, audio_ok, fs))
    /\ fs' = IF audio_ok THEN WriteLog(fs, log_dir) ELSE fs
    /\ UNCHANGED << OrchVars, active_jobs, RegRest, ParserVars, AuxVars,
                    stem, audio_ok, log_dir >>

ResolveNext == ResolveCall

ResolveSpec == ResolveInit /\ [][ResolveNext]_vars

\* C20: when {stem}_transcription.txt exists in the working directory, the
\* call returns that file's path and that file's content, without a scan,
\* whatever else the candidate directories hold.
C20_ExactFileWins ==
    (resolved # << >> /\ audio_ok /\ ExactFile(fs, stem) # 0) =>
        /\ resolved[1].kind = "Ok"
        /\ resolved[1].path = << "work", ExactName(stem) >>
        /\ resolved[1].text = Text(ExactFile(fs, stem))
        /\ ~resolved[1].scanned

\* Directory d holds an entry whose name matches the stem.
HasMatch(d) ==
    \E i \in 1..Len(fs) : fs[i].dir = d /\ NameMatches(fs[i].name, stem)

\* Index of the entry a result's path names, 0 for an error.
Returned(r) ==
    Leftmost(fs, LAMBDA g, i : r.kind = "Ok" /\ r.path = << g[i].dir, g[i].name >>)

\* C21: with the exact file absent, each call returns a matching file of
\* the working directory if it has any match, else of its output
\* subdirectory if that has any, else of the home directory, and fails
\* with CliError when none has a match.
C21_FirstDirectoryWithMatch ==
    (audio_ok /\ ExactFile(fs, stem) = 0) =>
        \A n \in 1..Len(resolved) :
            LET r == resolved[n]
                first == IF HasMatch("work") THEN "work"
                         ELSE IF HasMatch("output") THEN "output"
                         ELSE IF HasMatch("home") THEN "home"
                         ELSE "none"
            IN  IF first = "none"
                THEN r.kind = "CliError"
                ELSE /\ r.kind = "Ok"
                     /\ r.path[1] = first
                     /\ Returned(r) # 0
                     /\ NameMatches(fs[Returned(r)].name, stem)

C21_Witness ==
    /\ audio_ok
    /\ ExactFile(fs, stem) = 0
    /\ resolved # << >>
    /\ resolved[1].kind = "Ok"
    /\ resolved[1].path[1] = "output"
    /\ \E i, j \in 1..Len(fs) :
          /\ fs[i].dir = "output" /\ NameMatches(fs[i].name, stem)
          /\ fs[j].dir = "home" /\ NameMatches(fs[j].name, stem)
          /\ fs[j].mtime > fs[i].mtime

\* Entries of directory d whose names match the stem.
MatchesIn(d) ==
    { i \in 1..Len(fs) : fs[i].dir = d /\ NameMatches(fs[i].name, stem) }

\* The call chose among several matches of one directory, no two of them
\* modified at the same time.
ChoseAmongSeveral(r) ==
    /\ r.kind = "Ok"
    /\ r.scanned
    /\ Cardinality(MatchesIn(r.path[1])) >= 2
    /\ \A i, j \in MatchesIn(r.path[1]) :
          i # j => fs[i].mtime # fs[j].mtime

Newest(S) == CHOOSE i \in S : \A j \in S : fs[j].mtime <= fs[i].mtime

\* C22: among several matching files of the selected directory with
\* different modification times, the call returns the path and the
\* content of the most recently modified one.
C22_NewestMatchReturned ==
    \A n \in 1..Len(resolved) :
        ChoseAmongSeveral(resolved[n]) =>
            LET newest == Newest(MatchesIn(resolved[n].path[1]))
            IN  /\ resolved[n].path = << fs[newest].dir, fs[newest].name >>
                /\ resolved[n].text = Text(newest)

\* The files a call may return: the matching entries of the directories.
CandidateFiles ==
    { fs[i] : i \in { j \in 1..Len(fs) :
                         /\ NameMatches(fs[j].name, stem)
                         /\ fs[j].dir \in {"work", "output", "home"} } }

\* C23: every further call on the same input returns the path and the
\* text the first call returned, and no call adds, removes or changes a
\* matching file of the candidate directories.
C23_ResolveIdempotent ==
    /\ [](\A n \in 1..Len(resolved) : resolved[n] = resolved[1])
    /\ [][CandidateFiles' = CandidateFiles]_vars

C23_Witness ==
    /\ Len(resolved) = MaxCalls
    /\ log_dir = "home"
    /\ resolved[1].kind = "Ok"
    /\ resolved[1].path[1] = "home"
    /\ resolved[MaxCalls].scanned

\* C24: a run returns Ok only after its worker exited with status zero and
\* with the text read from the artifact the resolver found.
C24_ResultOnlyFromArtifact ==
    \A k \in Runs :
        outcomes[k].kind = "Ok" =>
            /\ Worker(k).st = "exited"
            /\ Worker(k).code = 0
            /\ outcomes[k].why = "artifact"

----------------------------------------------------------------------------
(* monitor_progress and monitor_progress_with_cancellation (cli.rs)        *)
(*                                                                         *)
(* The code between two awaits runs as one step; the only await is the     *)
(* sleep of the inner loop.                                                *)

\* The stage table in its declared order, with two entries exchanged.
Stages_Swapped ==
    << [stage |-> "LoadingModel", progress |-> 15],
       [stage |-> "Transcribing", progress |-> 80],
       [stage |-> "Preprocessing", progress |-> 25],
       [stage |-> "Postprocessing", progress |-> 95],
       [stage |-> "Saving", progress |-> 100] >>

Stages ==
    << [stage |-> "LoadingModel", progress |-> 15],
       [stage |-> "Preprocessing", progress |-> 25],
       [stage |-> "Transcribing", progress |-> 80],
       [stage |-> "Postprocessing", progress |-> 95],
       [stage |-> "Saving", progress |-> 100] >>

\* for _ in 0..10
SleepsPerStage == 10

MonCancelled == mon_has_token /\ mon_token

MonInit ==
    /\ OrchIdle
    /\ active_jobs = {}
    /\ RegIdle
    /\ ParserIdle
    /\ ResolverIdle
    /\ RdIdle
    /\ mon_pc = "ready"
    /\ mon_has_token \in BOOLEAN
    /\ mon_token = FALSE
    /\ mon_stage = 1
    /\ mon_sleeps = 0
    /\ mon_events = << >>
    /\ mon_at_cancel = NotCancelled

MonFrame == UNCHANGED << OrchVars, active_jobs, RegRest, ParserVars,
                         ResolverVars, RdVars, mon_has_token >>

\* The head of the outer loop for stage k, up to the first sleep: the
\* cancellation check, the callback, the inner loop's first check.
MonEnterStage(k) ==
    IF k > Len(Stages) \/ MonCancelled
    THEN /\ mon_pc' = "returned"
         /\ UNCHANGED << mon_stage, mon_sleeps, mon_events >>
    ELSE /\ mon_events' = Append(mon_events, Stages[k])
         /\ mon_stage' = k
         /\ mon_sleeps' = 0
         /\ mon_pc' = "sleeping"

\* The call, from its first statement to its first await.
MonStart ==
    /\ mon_pc = "ready"
    /\ MonEnterStage(1)
    /\ UNCHANGED << mon_token, mon_at_cancel >>
    /\ MonFrame

Woken ==
    IF mon_at_cancel.fired
    THEN [mon_at_cancel EXCEPT !.wakes = @ + 1]
    ELSE mon_at_cancel

\* MonWake with a cancellation check at the head of each stage only.
MonWake_NoInnerCheck ==
    /\ mon_pc = "sleeping"
    /\ mon_at_cancel' = Woken
    /\ IF mon_sleeps + 1 = SleepsPerStage
       THEN MonEnterStage(mon_stage + 1)
       ELSE /\ mon_sleeps' = mon_sleeps + 1
            /\ UNCHANGED << mon_pc, mon_stage, mon_events >>
    /\ UNCHANGED mon_token
    /\ MonFrame

\* A sleep ends: the next round of the inner loop, or the next stage.
MonWake ==
    /\ mon_pc = "sleeping"
    /\ mon_at_cancel' = Woken
    /\ IF mon_sleeps + 1 = SleepsPerStage
       THEN MonEnterStage(mon_stage + 1)
       ELSE IF MonCancelled
            THEN /\ mon_pc' = "returned"
                 /\ UNCHANGED << mon_stage, mon_sleeps, mon_events >>
            ELSE /\ mon_sleeps' = mon_sleeps + 1
                 /\ UNCHANGED << mon_pc, mon_stage, mon_events >>
    /\ UNCHANGED mon_token
    /\ MonFrame

\* The owner of the token triggers it, before or during the call.
MonCancel ==
    /\ mon_has_token
    /\ ~mon_token
    /\ mon_pc \in {"ready", "sleeping"}
    /\ mon_token' = TRUE
    /\ mon_at_cancel' = [len |-> Len(mon_events), wakes |-> 0,
                         fired |-> TRUE]
    /\ UNCHANGED << mon_pc, mon_stage, mon_sleeps, mon_events >>
    /\ MonFrame

MonNext == MonStart \/ MonWake \/ MonCancel

MonSpec == MonInit /\ [][MonNext]_vars

\* A sleep of 100 ms ends and the runtime polls the task again.
MonFairSpec == MonSpec /\ WF_vars(MonStart) /\ WF_vars(MonWake)

\* Position of a stage in the declaration of ProcessingStage.
StageRank(st) ==
    CASE st = "Initializing" -> 0
      [] st = "LoadingModel" -> 1
      [] st = "Preprocessing" -> 2
      [] st = "Transcribing" -> 3
      [] st = "Postprocessing" -> 4
      [] st = "Finalizing" -> 5
      [] st = "Saving" -> 6

IsPrefix(a, b) == Len(a) <= Len(b) /\ a = SubSeq(b, 1, Len(a))

\* C25: without a token the call delivers LoadingModel 15, Preprocessing
\* 25, Transcribing 80, Postprocessing 95, Saving 100, in this order and
\* nothing else, stages and values strictly increasing, values within
\* [0, 100], and then returns.
C25_FiveStagesInOrder ==
    LET expected == << [stage |-> "LoadingModel", progress |-> 15],
                       [stage |-> "Preprocessing", progress |-> 25],
                       [stage |-> "Transcribing", progress |-> 80],
                       [stage |-> "Postprocessing", progress |-> 95],
                       [stage |-> "Saving", progress |-> 100] >>
    IN  /\ [](~mon_has_token =>
                /\ IsPrefix(mon_events, expected)
                /\ mon_pc = "returned" => mon_events = expected
                /\ \A i \in 1..Len(mon_events) :
                      /\ mon_events[i].progress >= 0
                      /\ mon_events[i].progress <= 100
                /\ \A i, j \in 1..Len(mon_events) :
                      i < j =>
                        /\ StageRank(mon_events[i].stage)
                             < StageRank(mon_events[j].stage)
                        /\ mon_events[i].progress < mon_events[j].progress)
        /\ (~mon_has_token /\ mon_pc = "ready") ~> (mon_pc = "returned")

C25_Witness ==
    /\ ~mon_has_token
    /\ mon_pc = "returned"
    /\ Len(mon_events) = 5

\* C26: once the token is triggered the callback receives nothing more,
\* at most one sleep ends before the call returns, and the call returns.
C26_CancelStopsMonitor ==
    /\ [](mon_at_cancel.fired =>
            /\ Len(mon_events) = mon_at_cancel.len
            /\ mon_at_cancel.wakes <= 1
            /\ mon_at_cancel.wakes = 1 => mon_pc = "returned")
    /\ mon_at_cancel.fired ~> (mon_pc = "returned")

C26_Witness ==
    /\ mon_at_cancel.fired
    /\ mon_at_cancel.wakes = 1
    /\ mon_at_cancel.len \in 1..(Len(Stages) - 1)
    /\ mon_pc = "returned"

\* The events the run of file i delivered to the sink.
EventsOf(i) ==
    SelectSeq(events, LAMBDA e : e.file = i /\ e.src = "orchestrator")

IsInitial(e) ==
    e.src = "orchestrator" /\ e.stage = "Initializing" /\ e.num = 0

\* C27: a finished run delivered the (Initializing, 0) event only if its
\* worker was spawned, and that event is the first one of the run.
C27_InitialEventAfterSpawn ==
    \A k \in Runs :
        LET es == EventsOf(outcomes[k].file)
        IN  /\ (\E n \in 1..Len(es) : IsInitial(es[n])) =>
                  Worker(k).st # "none"
            /\ \A n \in 1..Len(es) : IsInitial(es[n]) => n = 1
            /\ es # << >> => IsInitial(es[1])

\* The run of file i delivered the (Saving, 100) event.
Saved(i) ==
    \E n \in 1..Len(EventsOf(i)) :
        EventsOf(i)[n].stage = "Saving" /\ EventsOf(i)[n].num = 100

MaxLines == 2

\* A line that is not valid UTF-8: next_line() returns Err for it.
Invalid == << Tok("invalid utf-8") >>

WorkerOutput ==
    { << Tok("Loading Whisper model") >>, PctFragment(50), << Tok("text") >>,
      Invalid }

RdInit ==
    /\ OrchIdle
    /\ active_jobs = {}
    /\ RegIdle
    /\ ParserIdle
    /\ ResolverIdle
    /\ MonIdle
    /\ rd_pipe = [s \in Streams |-> << >>]
    /\ rd_pos = [s \in Streams |-> 0]
    /\ rd_pc = [s \in Streams |-> "reading"]
    /\ rd_child = "running"
    /\ rd_await = "waiting"
    /\ delivered = << >>

RdFrame == UNCHANGED << OrchVars, active_jobs, RegRest, ParserVars,
                        ResolverVars, MonVars >>

\* The worker writes one more line to a stream.
WorkerWrite(s) ==
    /\ rd_child = "running"
    /\ Len(rd_pipe[s]) < MaxLines
    /\ \E l \in WorkerOutput :
          rd_pipe' = [rd_pipe EXCEPT ![s] = Append(@, l)]
    /\ RdFrame
    /\ UNCHANGED << rd_pos, rd_pc, rd_child, rd_await, delivered >>

\* The worker terminates; its ends of both pipes close.
WorkerTerminate ==
    /\ rd_child = "running"
    /\ rd_child' \in {"zero", "nonzero"}
    /\ RdFrame
    /\ UNCHANGED << rd_pipe, rd_pos, rd_pc, rd_await, delivered >>

Deliver_Front(s, evs) ==
    [n \in 1..Len(evs) |-> [stream |-> s, ev |-> evs[n]]] \o delivered

\* The callback is called with each event, in order.
Deliver(s, evs) ==
    delivered \o [n \in 1..Len(evs) |-> [stream |-> s, ev |-> evs[n]]]

\* One turn of "while let Ok(Some(line)) = lines.next_line().await".
ReaderLine(s) ==
    /\ rd_pc[s] = "reading"
    /\ rd_pos[s] < Len(rd_pipe[s])
    /\ LET l == rd_pipe[s][rd_pos[s] + 1]
       IN  IF l = Invalid
           THEN /\ rd_pc' = [rd_pc EXCEPT ![s] = "done"]
                /\ UNCHANGED << rd_pos, delivered >>
           ELSE /\ rd_pos' = [rd_pos EXCEPT ![s] = @ + 1]
                /\ delivered' = Deliver(s, ParseLine(l))
                /\ UNCHANGED rd_pc
    /\ RdFrame
    /\ UNCHANGED << rd_pipe, rd_child, rd_await >>

\* next_line() returns Ok(None): the stream is at its end.
ReaderEof(s) ==
    /\ rd_pc[s] = "reading"
    /\ rd_pos[s] = Len(rd_pipe[s])
    /\ rd_child # "running"
    /\ rd_pc' = [rd_pc EXCEPT ![s] = "done"]
    /\ RdFrame
    /\ UNCHANGED << rd_pipe, rd_pos, rd_child, rd_await, delivered >>

\* child.wait() returns; a zero status is followed by (Saving, 100).
ExitAwait ==
    /\ rd_await = "waiting"
    /\ rd_child # "running"
    /\ rd_await' = "done"
    /\ delivered' = IF rd_child = "zero"
                    THEN Deliver("exit", << Ev("Saving", 100, 1) >>)
                    ELSE delivered
    /\ RdFrame
    /\ UNCHANGED << rd_pipe, rd_pos, rd_pc, rd_child >>

RdNext ==
    \/ \E s \in Streams : WorkerWrite(s)
    \/ WorkerTerminate
    \/ \E s \in Streams : ReaderLine(s)
    \/ \E s \in Streams : ReaderEof(s)
    \/ ExitAwait

RdSpec == RdInit /\ [][RdNext]_vars

\* The events the callback received from stream s, in the order received.
FromStream(s) ==
    LET part == SelectSeq(delivered, LAMBDA d : d.stream = s)
    IN  [n \in 1..Len(part) |-> part[n].ev]

\* The events of the first n lines of stream s, in the order written.
RECURSIVE Produced(_, _)
Produced(s, n) ==
    IF n = 0 THEN << >>
    ELSE Produced(s, n - 1) \o ParseLine(rd_pipe[s][n])

\* C29: for each stream taken separately, the callback has received the
\* events of the lines read so far in the order the stream produced those
\* lines, however the two readers and the exit-await are interleaved.
C29_PerStreamOrder ==
    \A s \in Streams : FromStream(s) = Produced(s, rd_pos[s])

\* Both streams delivered two different events each, the calls of the two
\* readers alternated, and the exit-await delivered its event in between.
C29_Witness ==
    /\ \A s \in Streams :
          /\ Len(FromStream(s)) = 2
          /\ FromStream(s)[1] # FromStream(s)[2]
    /\ Len(delivered) = 5
    /\ delivered[1].stream = "stdout"
    /\ delivered[2].stream = "stderr"
    /\ delivered[3].stream = "exit"
    /\ delivered[4].stream = "stdout"

\* The batch-level values a coordinator has reported: process_batch hands
\* them to the callback, process_batch_with_events emits them.
BatchLevel ==
    IF mode = "events" THEN batch_progress
    ELSE SelectSeq(events, LAMBDA e : e.src = "batch")

\* Position in the callback's sequence of the batch-level value of file i.
BatchEventAt(i) ==
    CHOOSE n \in 1..Len(events) :
        events[n].src = "batch" /\ events[n].file = i

\* C30: the n-th batch-level value is the one of file n - 1 (0-based) of
\* N with progress 100 * (n - 1) / N, below 100 and not below its
\* predecessor; a coordinator with a sink reports it once for every run,
\* before the run delivers or returns anything.
C30_BatchProgress ==
    LET B == BatchLevel
    IN  /\ \A n \in 1..Len(B) :
              /\ B[n].stage = "Initializing"
              /\ B[n].file = n
              /\ B[n].den = N
              /\ B[n].num = 100 * (n - 1)
              /\ B[n].num < 100 * B[n].den
              /\ n > 1 => B[n - 1].num * B[n].den <= B[n].num * B[n - 1].den
        /\ (mode = "events" \/ (mode = "batch" /\ has_callback)) =>
              /\ Len(outcomes) <= Len(B)
              /\ Len(B) <= Len(outcomes) + 1
              /\ pc \notin {"idle", "returned"} => Len(B) = index
        /\ mode = "batch" =>
              \A n \in 1..Len(events) :
                  events[n].src = "orchestrator" =>
                      BatchEventAt(events[n].file) < n

\* Both files of a batch have been run and each was announced.
C30_Witness ==
    /\ mode \in {"batch", "events"}
    /\ bpc = "done"
    /\ Len(BatchLevel) = 2
    /\ Len(outcomes) = 2
    /\ BatchLevel[2].num = 100 /\ BatchLevel[2].den = 2

\* C31: once the exit-await has delivered (Saving, 100), the callback
\* receives no further event from either reader.
C31_NoParserEventAfterSaving ==
    \A n \in 1..Len(delivered) :
        delivered[n].stream = "exit" =>
            \A m \in n + 1..Len(delivered) : delivered[m].stream = "exit"

\* C32: every id that has a task handle or a cancellation token in the
\* registry has a job entry too.
C32_HandlesAndTokensHaveJobs ==
    /\ job_handles \subseteq get_active_jobs(Manager)
    /\ cancellation_tokens \subseteq get_active_jobs(Manager)

\* The batch task of id is at or inside the run of a file.
FileUnfinished(id) ==
    \/ task[id] \in {"entry", "file"}
    \/ task[id] = "head" /\ file_idx[id] < MaxJobFiles

\* C33: once the token of a batch has been triggered while a file of the
\* batch was still unfinished, the batch never emits "batch-completed".
C33_CancelledNeverCompletes ==
    \A id \in JobIds :
        [](tokens[id] /\ FileUnfinished(id) =>
              []("batch-completed" \notin Names(id)))

Terminal(e) == e.name \in {"batch-completed", "batch-cancelled"}

\* C34: every spawned batch task eventually emits a terminal event, and a
\* terminal event is followed by no other terminal event and by no
\* "batch-progress", "file-completed" or "file-error".
C34_OneTerminalEvent ==
    /\ [](\A id \in JobIds :
            \A n \in 1..Len(job_events[id]) :
                Terminal(job_events[id][n]) =>
                    \A m \in n + 1..Len(job_events[id]) :
                        job_events[id][m].name \notin
                            {"batch-completed", "batch-cancelled",
                             "batch-progress", "file-completed",
                             "file-error"})
    /\ \A id \in JobIds :
          (task[id] = "head") ~>
             (\E n \in 1..Len(job_events[id]) : Terminal(job_events[id][n]))

\* One batch ended cancelled, the other completed after a failed file.
C34_Witness ==
    /\ Ended("A") /\ Ended("B")
    /\ job_events["A"][Len(job_events["A"])].name = "batch-cancelled"
    /\ job_events["B"][Len(job_events["B"])].name = "batch-completed"
    /\ "file-error" \in Names("B")

\* C35: no step spawns a worker while the token is triggered.
C35_NoSpawnAfterCancel ==
    [][\A i \in Files :
          (child[i].st = "none" /\ child'[i].st = "running") => ~token]_vars

\* C36: a cancel_job call that returned false has left the manager as it
\* was.
C36_FailedCancelChangesNothing ==
    (last_op.op = "cancel_job" /\ last_op.ret = FALSE) => ~last_op.changed

\* C37: an update task that found no job under its id has changed nothing
\* in the registry and the id still has no job; and no update task changes
\* the entry, token, handle, task or events of a job other than its own.
C37_LateUpdateIsNoOp ==
    /\ []((last_op.op = "update_job_progress" /\ ~last_op.had_job) =>
             /\ ~last_op.changed
             /\ get_job(Manager, last_op.id) = << >>)
    /\ [][ApplyUpdate =>
             \A b \in JobIds \ {last_op'.id} : Untouched(b)]_vars

\* An update task of a completed and removed batch has run while the other
\* job was in the registry.
C37_Witness ==
    /\ last_op.op = "update_job_progress"
    /\ ~last_op.had_job
    /\ Ended(last_op.id)
    /\ "batch-completed" \in Names(last_op.id)
    /\ \E b \in JobIds \ {last_op.id} : get_job(Manager, b) # << >>

\* The names the worker gives to the artifact of an input with stem s:
\* s_transcription_<timestamp>.txt, s_transcription.txt and s.txt.
NamedFor(filename, s) ==
    \/ /\ StartsWith(filename, s \o << "_", "transcription", "_" >>)
       /\ EndsWith(filename, << ".txt" >>)
    \/ filename = s \o << "_", "transcription", ".txt" >>
    \/ filename = s \o << ".txt" >>

\* C38: the file a call returns is named for the input's stem and for no
\* other stem.
C38_OnlyOwnArtifact ==
    \A n \in 1..Len(resolved) :
        resolved[n].kind = "Ok" =>
            /\ NamedFor(resolved[n].path[2], stem)
            /\ \A s \in Stems \ {stem} : ~NamedFor(resolved[n].path[2], s)

\* C39: a start_batch_processing call that returned a validation error
\* changed nothing in the registry, and its id has no job, no token, no
\* handle, no task and no event.
C39_RejectedStartRegistersNothing ==
    /\ [](\A id \in JobIds :
            start_pc[id] \in StartErrors =>
                /\ get_job(Manager, id) = << >>
                /\ id \notin cancellation_tokens
                /\ id \notin job_handles
                /\ task[id] = "none"
                /\ job_events[id] = << >>)
    /\ [][\A id \in JobIds :
            (start_pc[id] = "none" /\ start_pc'[id] \in StartErrors) =>
                Manager' = Manager]_vars

\* One call was rejected for a missing file while the other call's batch
\* was registered and running.
C39_Witness ==
    /\ start_pc["A"] = "FileNotFound"
    /\ start_pc["B"] = "returned"
    /\ get_job(Manager, "B") # << >>
    /\ task["B"] = "file"

\* The step that ends the entry part of process_file_with_cancellation
\* spawns nothing and delivers nothing.
EntryReturnsQuietly ==
    /\ pc' = "returned"
    /\ events' = events
    /\ app_events' = app_events
    /\ child' = child
    /\ probe' = probe
    /\ launches' = launches

\* C40: a call that finds its token triggered returns ProcessingError,
\* spawns neither the probe nor the worker and delivers no event.
C40_CancelledAtEntry ==
    [][(pc = "entry" /\ pc' # "entry" /\ has_token /\ token) =>
          /\ EntryReturnsQuietly
          /\ LastOutcome'.kind = "ProcessingError"]_vars

\* C40 as the code has it: the input file is looked up first, so a call
\* that finds its token triggered returns FileNotFound for a missing file
\* and ProcessingError otherwise, and in both cases spawns neither the
\* probe nor the worker and delivers no event.
C40_CancelledAtEntryAmended ==
    [][(pc = "entry" /\ pc' # "entry" /\ has_token /\ token) =>
          /\ EntryReturnsQuietly
          /\ LastOutcome'.kind = IF file_exists[index] THEN "ProcessingError"
                                 ELSE "FileNotFound"]_vars

\* A call with a sink found its token triggered and has returned.
C40_Witness ==
    /\ has_callback
    /\ pc = "returned"
    /\ LastOutcome.kind = "ProcessingError"
    /\ LastOutcome.tok
    /\ cancel_at.file = LastOutcome.file
    /\ child[LastOutcome.file].st = "none"
    /\ probe[LastOutcome.file] = "none"
    /\ EventsOf(LastOutcome.file) = << >>

====
